---------------------------- MODULE Spec2Model ----------------------------
(***************************************************************************)
(* A model of the local scraping daemon (python/daemon.py): the DNS        *)
(* override chain behind the patched getaddrinfo, the dns_settings update  *)
(* of the override map, the initial-letter (pinyin) permutation, the       *)
(* per-connection request handler with its worker pool, and the accept     *)
(* loop with its two idle timers.                                          *)
(*                                                                         *)
(* Each part has its own specification over the module's variables; the    *)
(* variables a specification does not use keep their initial values.       *)
(***************************************************************************)
EXTENDS Integers, Sequences, FiniteSets, TLC

None == "None"

(***************************************************************************)
(* Python dicts are functions; `k in d` is k \in DOMAIN d.                 *)
(***************************************************************************)
EmptyMap == <<>>

Put(m, k, v) == [x \in (DOMAIN m) \cup {k} |-> IF x = k THEN v ELSE m[x]]

Del(m, k) == [x \in (DOMAIN m) \ {k} |-> m[x]]

Update(m, other) ==
    [x \in (DOMAIN m) \cup (DOMAIN other) |-> IF x \in DOMAIN other THEN other[x] ELSE m[x]]

VARIABLES
    \* ---- resolver (daemon.py 15-275) ----
    HOSTS_MAP,        \* hostname -> address, from the hosts files
    CUSTOM_IP_MAP,    \* hostname -> operator-supplied address
    DNS_CACHE,        \* hostname -> address answered by a DoH provider
    TARGET_DOMAINS,   \* set of intercepted domain strings
    lk,               \* per thread: the getaddrinfo call it is running
    reload,           \* position of onSettingsChanged (load_custom_ips; load_hosts)
    probeLog,         \* history: the <<host, ip>> pairs whose probe has failed
    \* ---- initial-letter query (daemon.py 29-93) ----
    CHAR_MAP,         \* character -> list of pinyin spellings (char_map.json)
    text,             \* the `pinyin` value of the query
    result,           \* what get_pinyin_permutations returned
    \* ---- dns_settings updates applied one after another (daemon.py 407-421) ----
    dnsLast,          \* history: the dns_settings object applied last ({} before any)
    dnsTick,          \* history: flips with every applied dns_settings object
    \* ---- connection handlers and the worker pool (daemon.py 283-438) ----
    conn,             \* per connection: the handle_client call serving it
    THREAD_POOL,      \* the current ThreadPoolExecutor, if any
    LAST_POOL_USE,    \* time of the last get_thread_pool call
    poolCount,        \* executors created so far (they are numbered 1, 2, ...)
    poolShutdown,     \* the executors on which shutdown() has been called
    work_queue,       \* the submitted work items not yet taken by a worker
    sessions,         \* SessionManager._sessions: domain -> client
    now,              \* time.time()
    \* ---- the accept loop (daemon.py 440-510) ----
    spc,              \* start_server's position
    last_activity,    \* time of the last accepted connection
    portProperty,     \* window property TMDB_OPTIMIZATION_SERVICE_PORT
    boundPort,        \* the port the listening socket is bound to
    polled,           \* the loop came round since the clock was last observed
    abort,            \* monitor.abortRequested()
    \* ---- the three locks (daemon.py 18, 286, 312) ----
    locks,            \* lock -> the thread holding it, or Free
    th,               \* per thread of the lock model: its position
    \* ---- clients of the daemon (api_utils.py) and the scripts they launch ----
    cl,               \* per client: the locals of load_info_from_service
    dm                \* per daemon script: how far it is, and its port

resolverVars == <<HOSTS_MAP, CUSTOM_IP_MAP, DNS_CACHE, TARGET_DOMAINS, lk, reload, probeLog>>

pinyinVars == <<CHAR_MAP, text, result>>

overrideVars == <<dnsLast, dnsTick>>

poolVars == <<THREAD_POOL, LAST_POOL_USE, poolCount, poolShutdown, work_queue>>

handlerVars == <<conn, poolVars, sessions, now>>

lookupVars == <<HOSTS_MAP, DNS_CACHE, TARGET_DOMAINS, lk, reload, probeLog>>

serverVars == <<spc, last_activity, portProperty, boundPort, polled, abort>>

lockVars == <<locks, th>>

clientVars == <<cl, dm>>

vars == <<resolverVars, pinyinVars, overrideVars, handlerVars, serverVars, lockVars, clientVars>>

\* What the steps of one part leave alone.
nonResolverVars == <<pinyinVars, overrideVars, handlerVars, serverVars, lockVars, clientVars>>
nonPinyinVars == <<resolverVars, overrideVars, handlerVars, serverVars, lockVars, clientVars>>
nonOverrideVars == <<lookupVars, pinyinVars, handlerVars, serverVars, lockVars, clientVars>>
nonHandlerVars == <<lookupVars, pinyinVars, overrideVars, serverVars, lockVars, clientVars>>
nonDaemonVars == <<resolverVars, pinyinVars, overrideVars, lockVars, clientVars>>

\* What the clients and the scripts they launch leave alone.
nonClientVars ==
    <<resolverVars, pinyinVars, overrideVars, handlerVars, spc, last_activity, boundPort,
      polled, abort, lockVars>>

\* What the steps of the lock model leave alone.
nonLockVars ==
    <<HOSTS_MAP, CUSTOM_IP_MAP, TARGET_DOMAINS, lk, reload, probeLog, pinyinVars,
      overrideVars, conn, work_queue, now, serverVars, clientVars>>

\* The parts a specification does not exercise stay as they are here.
LookupRest ==
    /\ HOSTS_MAP = <<>> /\ DNS_CACHE = <<>>
    /\ TARGET_DOMAINS = {} /\ lk = <<>> /\ reload = "idle" /\ probeLog = {}

ResolverRest == LookupRest /\ CUSTOM_IP_MAP = <<>>

OverrideRest == dnsLast = <<>> /\ dnsTick = FALSE

HandlerRest ==
    /\ conn = <<>> /\ THREAD_POOL = 0 /\ LAST_POOL_USE = 0 /\ poolCount = 0
    /\ poolShutdown = {} /\ work_queue = <<>> /\ sessions = <<>> /\ now = 0

ServerRest ==
    /\ spc = "select" /\ last_activity = 0 /\ portProperty = "56789" /\ boundPort = "56789"
    /\ polled = FALSE /\ abort = FALSE

PinyinRest == CHAR_MAP = <<>> /\ text = <<>> /\ result = "None"

LockRest == locks = <<>> /\ th = <<>>

ClientRest == cl = <<>> /\ dm = <<>>

(***************************************************************************)
(*                              RESOLVER                                   *)
(***************************************************************************)

\* Hostnames are Python strings; the interception test is a substring test,
\* so each name is also given as its sequence of characters.
Chars(s) ==
    CASE s = "themoviedb.org"       -> <<"t","h","e","m","o","v","i","e","d","b",".","o","r","g">>
      [] s = "tmdb.org"             -> <<"t","m","d","b",".","o","r","g">>
      [] s = "fanart.tv"            -> <<"f","a","n","a","r","t",".","t","v">>
      [] s = "imdb.com"             -> <<"i","m","d","b",".","c","o","m">>
      [] s = "trakt.tv"             -> <<"t","r","a","k","t",".","t","v">>
      [] s = "api.tmdb.org"         -> <<"a","p","i",".","t","m","d","b",".","o","r","g">>
      [] s = "webservice.fanart.tv" -> <<"w","e","b","s","e","r","v","i","c","e",".","f","a","n","a","r","t",".","t","v">>
      [] s = "www.imdb.com"         -> <<"w","w","w",".","i","m","d","b",".","c","o","m">>
      [] s = "tmdb.org.evil.net"    -> <<"t","m","d","b",".","o","r","g",".","e","v","i","l",".","n","e","t">>
      [] s = "example.com"          -> <<"e","x","a","m","p","l","e",".","c","o","m">>
      [] s = "mirror.example.com"   -> <<"m","i","r","r","o","r",".","e","x","a","m","p","l","e",".","c","o","m">>
      [] s = "10.0.0.1"             -> <<"1","0",".","0",".","0",".","1">>
      [] s = "20.0.0.1"             -> <<"2","0",".","0",".","0",".","1">>
      [] s = "20.0.0.2"             -> <<"2","0",".","0",".","0",".","2">>
      [] s = "fe80::1"              -> <<"f","e","8","0",":",":","1">>
      [] s = ""                     -> <<>>

\* Python's `d in host` on strings.
Contains(d, h) ==
    \E i \in 1..(Len(Chars(h)) - Len(Chars(d)) + 1) :
        SubSeq(Chars(h), i, i + Len(Chars(d)) - 1) = Chars(d)

\* h is the domain d or a subdomain of it (d is a domain suffix of h).
HasDomainSuffix(d, h) ==
    LET c == Chars(h)
        s == <<".">> \o Chars(d)
    IN  \/ h = d
        \/ /\ Len(c) >= Len(s)
           /\ SubSeq(c, Len(c) - Len(s) + 1, Len(c)) = s

Digits == {"0","1","2","3","4","5","6","7","8","9"}

\* socket.inet_aton accepts one to four dot-separated numbers (the decimal
\* forms are modelled; the value ranges are not).
InetAtonOk(h) ==
    LET c == Chars(h)
    IN  /\ Len(c) > 0
        /\ \A i \in 1..Len(c) : c[i] \in Digits \cup {"."}
        /\ c[1] # "." /\ c[Len(c)] # "."
        /\ \A i \in 1..(Len(c) - 1) : ~(c[i] = "." /\ c[i+1] = ".")
        /\ Cardinality({i \in 1..Len(c) : c[i] = "."}) <= 3

is_ip_address(h) ==
    \/ InetAtonOk(h)
    \/ \E i \in 1..Len(Chars(h)) : Chars(h)[i] = ":"

\* The names handed to getaddrinfo.
LookupHosts == {"api.tmdb.org", "tmdb.org.evil.net", "example.com", "10.0.0.1"}

OverrideIPs == {"20.0.0.1", "20.0.0.2"}
DohIPs == {"30.0.0.1", "30.0.0.2"}

\* The doh_providers list has three entries.
NProviders == 3

doh_providers ==
    <<"https://1.1.1.1/dns-query", "https://223.5.5.5/resolve", "https://223.6.6.6/resolve">>

\* What a provider may send back: requests.get raises (connection error,
\* timeout, a body that is not JSON), or a status and a JSON object with or
\* without an 'Answer' list of records (type 1 is A, type 5 is CNAME).
ARecord(ip) == [type |-> 1, data |-> ip]
CnameRecord == [type |-> 5, data |-> "tmdb.map.fastly.net"]

Response(raised, status_code, hasAnswer, answers) ==
    [raised |-> raised, status_code |-> status_code, hasAnswer |-> hasAnswer,
     Answer |-> answers]

NoAnswer == Response(FALSE, 0, FALSE, <<>>)

DohResponses ==
    { Response(TRUE, 0, FALSE, <<>>),
      Response(FALSE, 503, FALSE, <<>>),
      Response(FALSE, 200, FALSE, <<>>),
      Response(FALSE, 200, TRUE, <<CnameRecord>>),
      Response(FALSE, 200, TRUE, <<CnameRecord, ARecord("30.0.0.1"), ARecord("30.0.0.2")>>),
      Response(FALSE, 200, TRUE, <<ARecord("30.0.0.2"), ARecord("30.0.0.1")>>) }

\* What the hosts files and the add-on settings may hold when they are read.
HostsFileChoices == {EmptyMap, [h \in {"api.tmdb.org"} |-> "10.0.0.1"]}
TmdbHostChoices == {"api.tmdb.org", "mirror.example.com"}
DnsSettingIPs == {"", "20.0.0.1"}

\* The keys and values a dns_settings object may carry.
DnsKeys == {"api.tmdb.org"}
DnsValues == {"", "20.0.0.1", "20.0.0.2"}

Threads == {"t1", "t2"}

\* ORIGINAL_GETADDRINFO's answer and the answer built from an intercepted ip.
SystemResult(h) == <<"system", h>>
InterceptResult(ip) == <<"AF_INET", ip>>

Idle ==
    [pc |-> "idle", host |-> None, ip |-> None, k |-> 0, dret |-> None,
     ret |-> None, ev |-> <<>>, cachedAtCall |-> FALSE,
     asked |-> <<>>, resp |-> NoAnswer]

Truthy(v) == v # None /\ v # ""

Count(seq, S) == Cardinality({i \in 1..Len(seq) : seq[i] \in S})

\* TARGET_DOMAINS after the start-up load_custom_ips with default settings.
InitialTargets ==
    {"themoviedb.org", "tmdb.org", "fanart.tv", "imdb.com", "trakt.tv",
     "api.tmdb.org", "webservice.fanart.tv", "www.imdb.com"}

ResolverInit ==
    /\ HOSTS_MAP \in HostsFileChoices
    /\ CUSTOM_IP_MAP = EmptyMap
    /\ DNS_CACHE = EmptyMap
    /\ TARGET_DOMAINS = InitialTargets
    /\ lk = [t \in Threads |-> Idle]
    /\ reload = "idle"
    /\ probeLog = {}
    /\ PinyinRest /\ OverrideRest /\ HandlerRest /\ ServerRest /\ LockRest /\ ClientRest

\* ---- patched_getaddrinfo ------------------------------------------------

\* A thread calls socket.getaddrinfo(host, port).
Call(t, h) ==
    /\ lk[t].pc \in {"idle", "done", "raised"}
    /\ lk' = [lk EXCEPT ![t] = [Idle EXCEPT !.pc = "gai_ip", !.host = h,
                                             !.cachedAtCall = h \in DOMAIN DNS_CACHE]]
    /\ UNCHANGED <<HOSTS_MAP, CUSTOM_IP_MAP, DNS_CACHE, TARGET_DOMAINS, reload, probeLog>>
    /\ UNCHANGED nonResolverVars

\* if is_ip_address(host): return ORIGINAL_GETADDRINFO(...)
GaiIpTest(t) ==
    /\ lk[t].pc = "gai_ip"
    /\ lk' = [lk EXCEPT ![t] =
                IF is_ip_address(lk[t].host)
                THEN [@ EXCEPT !.pc = "done", !.ret = SystemResult(lk[t].host)]
                ELSE [@ EXCEPT !.pc = "gai_target"]]
    /\ UNCHANGED <<HOSTS_MAP, CUSTOM_IP_MAP, DNS_CACHE, TARGET_DOMAINS, reload, probeLog>>
    /\ UNCHANGED nonResolverVars

Intercepted(h, targets) == \E d \in targets : Contains(d, h)

\* if any(d in host for d in TARGET_DOMAINS): ip = doh_lookup(host)
GaiTargetTest(t) ==
    /\ lk[t].pc = "gai_target"
    /\ lk' = [lk EXCEPT ![t] =
                IF Intercepted(lk[t].host, TARGET_DOMAINS)
                THEN [@ EXCEPT !.pc = "hosts_test", !.ev = Append(@, "doh_lookup")]
                ELSE [@ EXCEPT !.pc = "done", !.ret = SystemResult(lk[t].host)]]
    /\ UNCHANGED <<HOSTS_MAP, CUSTOM_IP_MAP, DNS_CACHE, TARGET_DOMAINS, reload, probeLog>>
    /\ UNCHANGED nonResolverVars

\* doh_lookup returned: if ip: return [(AF_INET, ..., (ip, port))]; else the system resolver.
GaiReturn(t) ==
    /\ lk[t].pc = "gai_ret"
    /\ lk' = [lk EXCEPT ![t] =
                [@ EXCEPT !.pc = "done",
                          !.ret = IF Truthy(lk[t].dret)
                                  THEN InterceptResult(lk[t].dret)
                                  ELSE SystemResult(lk[t].host)]]
    /\ UNCHANGED <<HOSTS_MAP, CUSTOM_IP_MAP, DNS_CACHE, TARGET_DOMAINS, reload, probeLog>>
    /\ UNCHANGED nonResolverVars

\* ---- doh_lookup ---------------------------------------------------------

DohReturn(r, v) == [r EXCEPT !.pc = "gai_ret", !.dret = v]

Raise(r, e) == [r EXCEPT !.pc = "raised", !.ret = e]

\* if host in HOSTS_MAP:
HostsTest(t) ==
    /\ lk[t].pc = "hosts_test"
    /\ lk' = [lk EXCEPT ![t] =
                IF lk[t].host \in DOMAIN HOSTS_MAP
                THEN [@ EXCEPT !.pc = "hosts_log", !.ev = Append(@, "hosts_hit")]
                ELSE [@ EXCEPT !.pc = "custom_test"]]
    /\ UNCHANGED <<HOSTS_MAP, CUSTOM_IP_MAP, DNS_CACHE, TARGET_DOMAINS, reload, probeLog>>
    /\ UNCHANGED nonResolverVars

\* xbmc.log(f'... {HOSTS_MAP[host]}'): a second read of the global.
HostsLog(t) ==
    /\ lk[t].pc = "hosts_log"
    /\ lk' = [lk EXCEPT ![t] =
                IF lk[t].host \in DOMAIN HOSTS_MAP
                THEN [@ EXCEPT !.pc = "hosts_ret"]
                ELSE Raise(@, "KeyError")]
    /\ UNCHANGED <<HOSTS_MAP, CUSTOM_IP_MAP, DNS_CACHE, TARGET_DOMAINS, reload, probeLog>>
    /\ UNCHANGED nonResolverVars

\* return HOSTS_MAP[host]
HostsReturn(t) ==
    /\ lk[t].pc = "hosts_ret"
    /\ lk' = [lk EXCEPT ![t] =
                IF lk[t].host \in DOMAIN HOSTS_MAP
                THEN DohReturn(@, HOSTS_MAP[lk[t].host])
                ELSE Raise(@, "KeyError")]
    /\ UNCHANGED <<HOSTS_MAP, CUSTOM_IP_MAP, DNS_CACHE, TARGET_DOMAINS, reload, probeLog>>
    /\ UNCHANGED nonResolverVars

\* if host in CUSTOM_IP_MAP:
CustomTest(t) ==
    /\ lk[t].pc = "custom_test"
    /\ lk' = [lk EXCEPT ![t] =
                IF lk[t].host \in DOMAIN CUSTOM_IP_MAP
                THEN [@ EXCEPT !.pc = "custom_read", !.ev = Append(@, "custom_hit")]
                ELSE [@ EXCEPT !.pc = "cache"]]
    /\ UNCHANGED <<HOSTS_MAP, CUSTOM_IP_MAP, DNS_CACHE, TARGET_DOMAINS, reload, probeLog>>
    /\ UNCHANGED nonResolverVars

\* (a variant that trusts the override without probing it)
CustomReadTrustsOverride(r, m) ==
    IF r.host \notin DOMAIN m
    THEN Raise(r, "KeyError")
    ELSE IF Truthy(m[r.host])
         THEN DohReturn([r EXCEPT !.ip = m[r.host]], m[r.host])
         ELSE [r EXCEPT !.pc = "cache", !.ip = m[r.host]]

\* ip = CUSTOM_IP_MAP[host]; `if ip and check_connectivity(ip, host=host)`
\* probes a truthy ip, with the name as server name.
CustomReadResult(r, m) ==
    IF r.host \notin DOMAIN m
    THEN Raise(r, "KeyError")
    ELSE IF Truthy(m[r.host])
         THEN [r EXCEPT !.pc = "probe", !.ip = m[r.host]]
         ELSE [r EXCEPT !.pc = "cache", !.ip = m[r.host]]

CustomRead(t) ==
    /\ lk[t].pc = "custom_read"
    /\ lk' = [lk EXCEPT ![t] = CustomReadResult(@, CUSTOM_IP_MAP)]
    /\ UNCHANGED <<HOSTS_MAP, CUSTOM_IP_MAP, DNS_CACHE, TARGET_DOMAINS, reload, probeLog>>
    /\ UNCHANGED nonResolverVars

\* check_connectivity(ip, host=host) succeeded: return ip
ProbeOk(t) ==
    /\ lk[t].pc = "probe"
    /\ lk' = [lk EXCEPT ![t] = DohReturn([@ EXCEPT !.ev = Append(@, "probe_ok")], lk[t].ip)]
    /\ UNCHANGED <<HOSTS_MAP, CUSTOM_IP_MAP, DNS_CACHE, TARGET_DOMAINS, reload, probeLog>>
    /\ UNCHANGED nonResolverVars

\* check_connectivity failed: log and fall through to the cache.
ProbeFailResult(r) == [r EXCEPT !.pc = "cache", !.ev = Append(@, "probe_fail")]

\* (a variant that stores the unreachable override as a resolution result)
ProbeFailCachesOverride(cache, r) == Put(cache, r.host, r.ip)

ProbeFailCache(cache, r) == cache

ProbeFail(t) ==
    /\ lk[t].pc = "probe"
    /\ lk' = [lk EXCEPT ![t] = ProbeFailResult(@)]
    /\ DNS_CACHE' = ProbeFailCache(DNS_CACHE, lk[t])
    /\ probeLog' = probeLog \cup {<<lk[t].host, lk[t].ip>>}
    /\ UNCHANGED <<HOSTS_MAP, CUSTOM_IP_MAP, TARGET_DOMAINS, reload>>
    /\ UNCHANGED nonResolverVars

\* (a variant that never finds the entry)
CacheLookupAlwaysMiss(r, cache) ==
    [r EXCEPT !.pc = "doh", !.k = 1, !.ev = Append(@, "cache_miss")]

\* with DNS_LOCK: if host in DNS_CACHE: return DNS_CACHE[host]
CacheLookupResult(r, cache) ==
    IF r.host \in DOMAIN cache
    THEN DohReturn([r EXCEPT !.ev = Append(@, "cache_hit")], cache[r.host])
    ELSE [r EXCEPT !.pc = "doh", !.k = 1, !.ev = Append(@, "cache_miss")]

CacheLookup(t) ==
    /\ lk[t].pc = "cache"
    /\ lk' = [lk EXCEPT ![t] = CacheLookupResult(@, DNS_CACHE)]
    /\ UNCHANGED <<HOSTS_MAP, CUSTOM_IP_MAP, DNS_CACHE, TARGET_DOMAINS, reload, probeLog>>
    /\ UNCHANGED nonResolverVars

\* (a variant that takes the last A record of the answer)
LastARecord(answers) ==
    LET A == {i \in 1..Len(answers) : answers[i].type = 1}
    IN  IF A = {} THEN None ELSE answers[CHOOSE i \in A : \A j \in A : j <= i].data

\* for answer in data['Answer']: if answer['type'] == 1: ip = answer['data'] ... return ip
FirstARecord(answers) ==
    LET A == {i \in 1..Len(answers) : answers[i].type = 1}
    IN  IF A = {} THEN None ELSE answers[CHOOSE i \in A : \A j \in A : i <= j].data

\* The address one iteration of the provider loop ends with, None when it
\* goes on with the next provider.
Answered(resp) ==
    IF resp.raised \/ resp.status_code # 200 \/ ~resp.hasAnswer
    THEN None
    ELSE FirstARecord(resp.Answer)

\* requests.get(provider k) answered 200 with an A record.
DohAnswer(t, resp) ==
    /\ lk[t].pc = "doh"
    /\ Answered(resp) # None
    /\ lk' = [lk EXCEPT ![t] =
                [@ EXCEPT !.pc = "cache_write", !.ip = Answered(resp), !.resp = resp,
                          !.asked = Append(@, doh_providers[lk[t].k]),
                          !.ev = Append(@, "doh_request")]]
    /\ UNCHANGED <<HOSTS_MAP, CUSTOM_IP_MAP, DNS_CACHE, TARGET_DOMAINS, reload, probeLog>>
    /\ UNCHANGED nonResolverVars

\* (a variant that remembers the failure of the last provider)
DohFailCachesNone(cache, r) ==
    IF r.k < NProviders THEN cache ELSE Put(cache, r.host, None)

\* a failed provider leaves DNS_CACHE alone: the only store is in the A-record branch.
DohFailCache(cache, r) == cache

\* provider k failed (exception, timeout, non-200, no Answer, no A record):
\* the next provider, or `return None` after the last.
DohFail(t, resp) ==
    /\ lk[t].pc = "doh"
    /\ Answered(resp) = None
    /\ lk' = [lk EXCEPT ![t] =
                IF lk[t].k < NProviders
                THEN [@ EXCEPT !.k = @ + 1, !.ev = Append(@, "doh_request"),
                               !.asked = Append(@, doh_providers[lk[t].k])]
                ELSE DohReturn([@ EXCEPT !.ev = Append(@, "doh_request"),
                                         !.asked = Append(@, doh_providers[lk[t].k])], None)]
    /\ DNS_CACHE' = DohFailCache(DNS_CACHE, lk[t])
    /\ UNCHANGED <<HOSTS_MAP, CUSTOM_IP_MAP, TARGET_DOMAINS, reload, probeLog>>
    /\ UNCHANGED nonResolverVars

\* with DNS_LOCK: DNS_CACHE[host] = ip; return ip
CacheWrite(t) ==
    /\ lk[t].pc = "cache_write"
    /\ DNS_CACHE' = Put(DNS_CACHE, lk[t].host, lk[t].ip)
    /\ lk' = [lk EXCEPT ![t] = DohReturn([@ EXCEPT !.ev = Append(@, "cache_write")], lk[t].ip)]
    /\ UNCHANGED <<HOSTS_MAP, CUSTOM_IP_MAP, TARGET_DOMAINS, reload, probeLog>>
    /\ UNCHANGED nonResolverVars

\* ---- dns_settings entries applied by a connection handler ---------------

\* (a variant that stores the empty value instead of removing the key)
ApplyEntryStoresEmpty(m, k, v) ==
    IF (IF k \in DOMAIN m THEN m[k] ELSE None) # v THEN Put(m, k, v) ELSE m

\* (a variant that replaces the whole map by the entry it stores)
ApplyEntryReplacesMap(m, k, v) ==
    IF ~Truthy(v)
    THEN IF k \in DOMAIN m THEN Del(m, k) ELSE m
    ELSE IF (IF k \in DOMAIN m THEN m[k] ELSE None) # v THEN Put(EmptyMap, k, v) ELSE m

\* One iteration of `for k, v in dns_settings.items()`.
ApplyEntry(m, k, v) ==
    IF ~Truthy(v)
    THEN IF k \in DOMAIN m THEN Del(m, k) ELSE m
    ELSE IF (IF k \in DOMAIN m THEN m[k] ELSE None) # v THEN Put(m, k, v) ELSE m


\* One entry of a handler's dns_settings takes effect.
DnsUpdate(k, v) ==
    /\ CUSTOM_IP_MAP' = ApplyEntry(CUSTOM_IP_MAP, k, v)
    /\ CUSTOM_IP_MAP' # CUSTOM_IP_MAP
    /\ UNCHANGED <<HOSTS_MAP, DNS_CACHE, TARGET_DOMAINS, lk, reload, probeLog>>
    /\ UNCHANGED nonResolverVars

\* ---- SettingsMonitor.onSettingsChanged: load_custom_ips(); load_hosts() --

\* CUSTOM_IP_MAP = {}
ReloadStart ==
    /\ reload = "idle"
    /\ CUSTOM_IP_MAP' = EmptyMap
    /\ reload' = "targets"
    /\ UNCHANGED <<HOSTS_MAP, DNS_CACHE, TARGET_DOMAINS, lk, probeLog>>
    /\ UNCHANGED nonResolverVars

\* the configured hosts are appended to TARGET_DOMAINS, then the configured
\* addresses are stored (of the four settings the tmdb pair varies).
ReloadCustom(host, ip) ==
    /\ reload = "targets"
    /\ TARGET_DOMAINS' = TARGET_DOMAINS \cup {host}
    /\ CUSTOM_IP_MAP' = IF Truthy(ip) /\ is_ip_address(ip)
                        THEN Put(CUSTOM_IP_MAP, host, ip)
                        ELSE CUSTOM_IP_MAP
    /\ reload' = "hosts_clear"
    /\ UNCHANGED <<HOSTS_MAP, DNS_CACHE, lk, probeLog>>
    /\ UNCHANGED nonResolverVars

\* HOSTS_MAP = {}
ReloadHostsClear ==
    /\ reload = "hosts_clear"
    /\ HOSTS_MAP' = EmptyMap
    /\ reload' = "hosts_update"
    /\ UNCHANGED <<CUSTOM_IP_MAP, DNS_CACHE, TARGET_DOMAINS, lk, probeLog>>
    /\ UNCHANGED nonResolverVars

\* HOSTS_MAP.update(parse_hosts_file(...)) for the system and the user file.
ReloadHostsUpdate(file) ==
    /\ reload = "hosts_update"
    /\ HOSTS_MAP' = Update(HOSTS_MAP, file)
    /\ reload' = "idle"
    /\ UNCHANGED <<CUSTOM_IP_MAP, DNS_CACHE, TARGET_DOMAINS, lk, probeLog>>
    /\ UNCHANGED nonResolverVars

\* One step of the getaddrinfo call thread t is running.
LookupStep(t) ==
    \/ GaiIpTest(t)
    \/ GaiTargetTest(t)
    \/ GaiReturn(t)
    \/ HostsTest(t)
    \/ HostsLog(t)
    \/ HostsReturn(t)
    \/ CustomTest(t)
    \/ CustomRead(t)
    \/ ProbeOk(t)
    \/ ProbeFail(t)
    \/ CacheLookup(t)
    \/ \E resp \in DohResponses : DohAnswer(t, resp)
    \/ \E resp \in DohResponses : DohFail(t, resp)
    \/ CacheWrite(t)

Reload ==
    \/ ReloadStart
    \/ \E host \in TmdbHostChoices, ip \in DnsSettingIPs : ReloadCustom(host, ip)
    \/ ReloadHostsClear
    \/ \E file \in HostsFileChoices : ReloadHostsUpdate(file)

\* One fetching thread, the handlers' dns_settings updates and the settings reload.
ResolverNext ==
    \/ \E h \in LookupHosts : Call("t1", h)
    \/ LookupStep("t1")
    \/ \E k \in DnsKeys, v \in DnsValues : DnsUpdate(k, v)
    \/ Reload

SpecResolver == ResolverInit /\ [][ResolverNext]_vars

\* Two fetching threads resolving the same name while handlers push
\* dns_settings (the reload touches neither DNS_CACHE nor a running call).
ResolverMTNext ==
    \/ \E t \in Threads : Call(t, "api.tmdb.org")
    \/ \E t \in Threads : LookupStep(t)
    \/ \E k \in DnsKeys, v \in DnsValues : DnsUpdate(k, v)

SpecResolverMT == ResolverInit /\ [][ResolverMTNext]_vars




(***************************************************************************)
(*                        DNS-OVERRIDE UPDATES                             *)
(***************************************************************************)

\* The dns_settings objects a request may carry: JSON objects from domain to
\* address string, "" asking for removal.
OverrideKeys == {"api.tmdb.org", "webservice.fanart.tv", "www.imdb.com"}

DnsSettingsChoices ==
    UNION {[K -> DnsValues] : K \in SUBSET OverrideKeys}

\* `if dns_settings:` and the loop over its items (a dict holds a key once,
\* so the order of the items does not matter).
RECURSIVE ApplySettings(_, _)
ApplySettings(m, d) ==
    IF DOMAIN d = {} THEN m
    ELSE LET k == CHOOSE x \in DOMAIN d : TRUE
         IN  ApplySettings(ApplyEntry(m, k, d[k]), Del(d, k))

OverrideInit ==
    /\ CUSTOM_IP_MAP \in {EmptyMap, [h \in {"api.tmdb.org"} |-> "20.0.0.1"]}
    /\ dnsLast = EmptyMap
    /\ dnsTick = FALSE
    /\ LookupRest /\ PinyinRest /\ HandlerRest /\ ServerRest /\ LockRest /\ ClientRest

\* A handler applies the dns_settings of its request (no other handler
\* interleaves).
ApplyDnsSettings(d) ==
    /\ CUSTOM_IP_MAP' = ApplySettings(CUSTOM_IP_MAP, d)
    /\ dnsLast' = d
    /\ dnsTick' = ~dnsTick
    /\ UNCHANGED nonOverrideVars

OverrideNext == \E d \in DnsSettingsChoices : ApplyDnsSettings(d)

SpecOverride == OverrideInit /\ [][OverrideNext]_vars

(***************************************************************************)
(*                     INITIAL-LETTER PERMUTATIONS                         *)
(***************************************************************************)

\* A text is a sequence of characters.  CJK characters are written by their
\* code points: U+91CD (zhong/chong), U+4E50 (le/yue), U+4E00 (yi); U+00DF is
\* the sharp s, whose upper case is the two letters SS.
CJK == {"U+91CD", "U+4E50", "U+4E00"}

Lower == {"a", "c", "e", "l", "s", "y", "z", "U+00DF"}

\* str.upper() of one character
Upper(c) ==
    CASE c = "a" -> "A" [] c = "c" -> "C" [] c = "e" -> "E"
      [] c = "l" -> "L" [] c = "y" -> "Y" [] c = "z" -> "Z"
      [] c = "s" -> "S" [] c = "U+00DF" -> "SS"
      [] OTHER -> c

\* str.isalnum() of one character
IsAlnum(c) == c \in Lower \cup {Upper(x) : x \in Lower} \cup Digits \cup CJK

\* The tables char_map.json may hold: spellings are character sequences, and
\* an entry may be empty or hold an empty spelling.
CharMapChoices ==
    { [c \in {"U+91CD", "U+4E50", "U+4E00"} |->
          CASE c = "U+91CD" -> << <<"z","h","o","n","g">>, <<"c","h","o","n","g">> >>
            [] c = "U+4E50" -> << <<"l","e">>, <<"y","u","e">> >>
            [] c = "U+4E00" -> << <<"y","i">> >>],
      [c \in {"U+91CD", "U+4E00", "a", "-", "7"} |->
          CASE c = "U+91CD" -> << <<"z","h","o","n","g">>, <<"z","h","a","n","g">>,
                                  <<"c","h","o","n","g">> >>
            [] c = "U+4E00" -> << <<"y","i">>, <<"y","a","o">> >>
            [] c = "a"      -> << <<>>, <<"s","a">>, <<"U+00DF","a">> >>
            [] c = "-"      -> << >>
            [] c = "7"      -> << <<>> >>] }

TextChars == {"U+91CD", "U+4E00", "a", "7", "-"}

MaxTextLen == 3

Texts == UNION {[1..n -> TextChars] : n \in 0..MaxTextLen}

\* initials of one table entry: p[0].upper() of every non-empty spelling,
\* de-duplicated in first-seen order
RECURSIVE EntryInitials(_, _)
EntryInitials(pinyins, acc) ==
    IF pinyins = <<>> THEN acc
    ELSE LET p == Head(pinyins)
             init == Upper(p[1])
         IN  IF p # <<>> /\ \A i \in 1..Len(acc) : acc[i] # init
             THEN EntryInitials(Tail(pinyins), Append(acc, init))
             ELSE EntryInitials(Tail(pinyins), acc)

\* what the loop over the text appends to char_initials for one character:
\* <<list>> or nothing
CharInitials(char) ==
    IF char \in DOMAIN CHAR_MAP
    THEN LET initials == EntryInitials(CHAR_MAP[char], <<>>)
         IN  IF initials # <<>> THEN <<initials>>
             ELSE IF IsAlnum(char) THEN << <<Upper(char)>> >> ELSE <<>>
    ELSE IF IsAlnum(char) THEN << <<Upper(char)>> >> ELSE <<>>

RECURSIVE AllCharInitials(_)
AllCharInitials(txt) ==
    IF txt = <<>> THEN <<>>
    ELSE CharInitials(Head(txt)) \o AllCharInitials(Tail(txt))

\* (a variant that varies the first position fastest)
RECURSIVE ExtendLeftFastest(_, _)
ExtendLeftFastest(acc, pool) ==
    IF pool = <<>> THEN <<>>
    ELSE [j \in 1..Len(acc) |-> Append(acc[j], Head(pool))] \o ExtendLeftFastest(acc, Tail(pool))

\* [x + (y,) for x in acc for y in pool]
RECURSIVE Extend(_, _)
Extend(acc, pool) ==
    IF acc = <<>> THEN <<>>
    ELSE [j \in 1..Len(pool) |-> Append(Head(acc), pool[j])] \o Extend(Tail(acc), pool)

\* itertools.product(*pools): starts from [()] and extends by each pool in turn
RECURSIVE Product(_, _)
Product(pools, acc) ==
    IF pools = <<>> THEN acc
    ELSE Product(Tail(pools), Extend(acc, Head(pools)))

\* "".join(p)
RECURSIVE Concat(_)
Concat(p) == IF p = <<>> THEN "" ELSE Head(p) \o Concat(Tail(p))

\* the seen_res / unique_results loop
RECURSIVE Unique(_, _)
Unique(results, acc) ==
    IF results = <<>> THEN acc
    ELSE IF \E i \in 1..Len(acc) : acc[i] = Head(results)
         THEN Unique(Tail(results), acc)
         ELSE Unique(Tail(results), Append(acc, Head(results)))

\* "|".join(unique_results)
RECURSIVE JoinBar(_)
JoinBar(rs) ==
    IF rs = <<>> THEN ""
    ELSE IF Len(rs) = 1 THEN rs[1]
    ELSE rs[1] \o "|" \o JoinBar(Tail(rs))

get_pinyin_permutations(txt) ==
    IF txt = <<>> THEN ""
    ELSE LET char_initials == AllCharInitials(txt)
             permutations == Product(char_initials, << <<>> >>)
             results == [i \in 1..Len(permutations) |-> Concat(permutations[i])]
         IN  JoinBar(Unique(results, <<>>))

PinyinInit ==
    /\ CHAR_MAP \in CharMapChoices
    /\ text \in Texts
    /\ result = None
    /\ ResolverRest /\ OverrideRest /\ HandlerRest /\ ServerRest /\ LockRest /\ ClientRest

\* handle_client, Protocol V3: result = get_pinyin_permutations(payload['pinyin'])
PinyinQuery ==
    /\ result = None
    /\ result' = get_pinyin_permutations(text)
    /\ UNCHANGED <<CHAR_MAP, text>>
    /\ UNCHANGED nonPinyinVars

PinyinNext == PinyinQuery

SpecPinyin == PinyinInit /\ [][PinyinNext]_vars

(***************************************************************************)
(*                 CONNECTION HANDLERS AND WORKER POOL                     *)
(***************************************************************************)

\* Bounds of the checked instance.
MaxBatch == 2

\* The most chunks a peer sends before it closes without completing a document.
MaxChunks == 1

Conns == {"c1", "c2"}

U1 == "https://api.tmdb.org/3/movie/1"
U2 == "https://webservice.fanart.tv/v3/movies/1"

\* urlparse(url).netloc
netloc(url) ==
    CASE url = U1 -> "api.tmdb.org"
      [] url = U2 -> "webservice.fanart.tv"
      [] OTHER -> ""

\* A fetch spec is a JSON object; request.get('url') is None when the key is
\* missing.
FetchSpec(u) == [url |-> u]

BatchUrls == {"", U1, U2}

\* The sequences of up to n different elements of S.
RECURSIVE SeqsUpTo(_, _)
SeqsUpTo(S, n) ==
    IF n = 0 THEN {<<>>}
    ELSE LET shorter == SeqsUpTo(S, n - 1)
             longest == {q \in shorter : Len(q) = n - 1}
         IN  shorter \cup
             UNION {{Append(q, x) : x \in {y \in S : \A i \in 1..Len(q) : q[i] # y}} :
                       q \in longest}

RequestLists == SeqsUpTo({FetchSpec(u) : u \in BatchUrls}, MaxBatch)

\* The JSON documents a client sends.  type is the Python type json.loads
\* gives; keys are the members an object has (the record holds None, or no
\* entries, for a member the object lacks).
DictPayload(keys, reqs, dns, txt, u) ==
    [type |-> "dict", keys |-> keys, requests |-> reqs, dns_settings |-> dns,
     pinyin |-> txt, url |-> u]

ListPayload(items) ==
    [type |-> "list", keys |-> {}, requests |-> items, dns_settings |-> <<>>,
     pinyin |-> <<>>, url |-> None]

\* dns_settings objects, as the sequence of their members.
DnsSettingsObjects == {<<>>, << <<"api.tmdb.org", "20.0.0.1">> >>, << <<"api.tmdb.org", "">> >>}

V2Payloads ==
    {DictPayload({"requests"}, r, <<>>, <<>>, None) : r \in RequestLists}
    \cup {DictPayload({"requests", "dns_settings"}, <<FetchSpec(U1), FetchSpec(U2)>>, d, <<>>, None) :
             d \in DnsSettingsObjects}
    \cup {DictPayload({"requests", "pinyin"}, <<FetchSpec(U1)>>, <<>>, <<"U+4E50", "a">>, None)}

\* A `pinyin` member that is the JSON number 5 instead of a string.
JsonNumber == <<"number 5">>

V3Payloads ==
    {DictPayload({"pinyin"}, <<>>, <<>>, <<"U+4E50", "a">>, None),
     DictPayload({"pinyin"}, <<>>, <<>>, JsonNumber, None),
     DictPayload({"pinyin", "dns_settings"}, <<>>, << <<"api.tmdb.org", "20.0.0.1">> >>,
                 <<"U+4E50", "a">>, None)}

V1ListPayloads == {ListPayload(r) : r \in RequestLists}

V1SinglePayloads ==
    {DictPayload({"url"}, <<>>, <<>>, <<>>, u) : u \in {"", U1}}
    \cup {DictPayload({}, <<>>, <<>>, <<>>, None)}

Payloads == V2Payloads \cup V3Payloads \cup V1ListPayloads \cup V1SinglePayloads

\* The second connection sends one of a few of them.
ConcurrentPayloads ==
    {p \in V2Payloads : "dns_settings" \in p.keys}
    \cup {DictPayload({"url"}, <<>>, <<>>, <<>>, U1)}

PayloadsOf(c) == IF c = "c1" THEN Payloads ELSE ConcurrentPayloads

\* ---- execute_request ----------------------------------------------------
NoUrl == [error |-> "No URL provided"]

\* session.get(url) answered and raise_for_status passed
Fetched(url) == [status |-> "200", text |-> "body of " \o url]

\* session.get or raise_for_status raised: {'error': str(e)}
Failed(url) == [error |-> "request failed: " \o url]

\* A variant of Outcomes: a failure is not turned into a result.
OutcomesRaising(url) == {Fetched(url), [raised |-> "request failed: " \o url]}

Outcomes(url) == {Fetched(url), Failed(url)}

max_workers == 5

\* Executors are numbered from 1 in the order of their creation; THREAD_POOL
\* is NoPool while the reference is None.
NoPool == 0

\* A future without a result yet, a connection nothing was written to.
NoResult == [pending |-> TRUE]

NoResponse == [sent |-> FALSE]

\* The documents handle_client writes.
ArrayResponse(results) == [array |-> results]

ObjectResponse(obj) == [object |-> obj]

\* handle_client's locals; dns_settings is the sequence of the members still
\* to apply (none for None); got holds the clients get_session returned to
\* the request's fetches (a history).
NoHandler ==
    [pc |-> "closed", payload |-> [type |-> "none"], requests_list |-> <<>>,
     dns_settings |-> <<>>,
     executor |-> NoPool, futs |-> <<>>, completed |-> <<>>, results |-> <<>>,
     response |-> NoResponse, ev |-> {}, saw |-> {}, got |-> {}]

\* load_custom_ips 95-133 at startup: the overrides of the add-on's settings,
\* with or without one for api.tmdb.org
OtherOverrides == Put(EmptyMap, "www.imdb.com", "20.0.0.9")

LoadedOverrides == Put(OtherOverrides, "api.tmdb.org", "20.0.0.2")

HandlerInit ==
    /\ conn = [c \in Conns |-> NoHandler]
    /\ THREAD_POOL = NoPool /\ LAST_POOL_USE = 0 /\ poolCount = 0
    /\ poolShutdown = {} /\ work_queue = <<>> /\ sessions = <<>> /\ now = 0
    /\ CUSTOM_IP_MAP \in {OtherOverrides, LoadedOverrides}
    /\ CHAR_MAP = CHOOSE m \in CharMapChoices : "U+4E50" \in DOMAIN m
    /\ text = <<>> /\ result = None
    /\ LookupRest /\ OverrideRest /\ ServerRest /\ LockRest /\ ClientRest

\* ev collects what was done on behalf of the request (a history).
Log(c, e) == conn[c].ev \cup {e}

\* start_server 477-484: a connection is accepted and a handler thread is
\* started for it; the client has sent payload p.
Connect(c, p) ==
    /\ conn[c].pc = "closed"
    /\ conn' = [conn EXCEPT ![c] = [NoHandler EXCEPT !.pc = "recv", !.payload = p]]
    /\ UNCHANGED <<poolVars, sessions, now, CUSTOM_IP_MAP>>
    /\ UNCHANGED nonHandlerVars

\* handle_client 355-370: the receive loop ends with a complete document.
Recv(c) ==
    /\ conn[c].pc = "recv"
    /\ conn' = [conn EXCEPT ![c].pc = "classify"]
    /\ UNCHANGED <<poolVars, sessions, now, CUSTOM_IP_MAP>>
    /\ UNCHANGED nonHandlerVars

\* (a variant without the finally clause: the exception ends the thread and
\* leaves the connection open)
AbortedStaysOpen(h, e) == [h EXCEPT !.pc = "raised", !.ev = h.ev \cup {e}]

\* handle_client 435-438: an exception ends the handler without a response.
Aborted(h, e) == [h EXCEPT !.pc = "done", !.ev = h.ev \cup {e}]

\* (a variant that answers an unparseable document with an error object)
RecvEndAnswersError(h, n) ==
    IF n = 0
    THEN [h EXCEPT !.pc = "done", !.payload = [type |-> "none"]]
    ELSE [h EXCEPT !.pc = "done", !.payload = [type |-> "none"],
                   !.ev = h.ev \cup {"sendall"},
                   !.response = ObjectResponse([error |-> "JSONDecodeError"])]

\* handle_client 358-359, 367-370: recv returned b"" after n chunks none of
\* whose concatenations parsed.  With no data the handler returns; otherwise
\* json.loads(data) raises and payload stays unassigned.
RecvEnd(h, n) ==
    IF n = 0
    THEN [h EXCEPT !.pc = "done", !.payload = [type |-> "none"]]
    ELSE Aborted([h EXCEPT !.payload = [type |-> "none"]], "JSONDecodeError")

\* The peer closes (or shuts down its sending side) before a complete document.
RecvClosed(c, n) ==
    /\ conn[c].pc = "recv"
    /\ conn' = [conn EXCEPT ![c] = RecvEnd(@, n)]
    /\ UNCHANGED <<poolVars, sessions, now, CUSTOM_IP_MAP>>
    /\ UNCHANGED nonHandlerVars

\* (a variant that runs every non-empty request on the handler's thread)
DispatchSingleUnlessEmpty(requests_list) ==
    IF requests_list = <<>> THEN "get_pool" ELSE "single"

\* A variant of Dispatch: every request goes to the worker pool.
DispatchAlwaysPool(requests_list) == "get_pool"

\* handle_client 423: the branch taken once dns_settings are applied
Dispatch(requests_list) == IF Len(requests_list) = 1 THEN "single" ELSE "get_pool"

\* A variant of AfterClassify: the fetches start without the updates.
AfterClassifySkipsDns(dns_settings, requests_list) == Dispatch(requests_list)

\* handle_client 407, 423: the dns_settings loop comes before the fetches
AfterClassify(dns_settings, requests_list) ==
    IF dns_settings # <<>> THEN "dns" ELSE Dispatch(requests_list)

\* A variant of Protocol: the pinyin member is looked for first.
ProtocolPinyinFirst(p) ==
    IF p.type = "dict" /\ "pinyin" \in p.keys THEN "V3"
    ELSE IF p.type = "dict" /\ "requests" \in p.keys THEN "V2"
    ELSE IF p.type = "list" THEN "V1 list"
    ELSE "V1 single"

\* handle_client 375-393: the if/elif chain over the payload
Protocol(p) ==
    IF p.type = "dict" /\ "requests" \in p.keys THEN "V2"
    ELSE IF p.type = "dict" /\ "pinyin" \in p.keys THEN "V3"
    ELSE IF p.type = "list" THEN "V1 list"
    ELSE "V1 single"

\* handle_client 382-386: the query's answer; iterating a number raises
\* TypeError in get_pinyin_permutations, which is reported as an error object.
PinyinResponse(txt) ==
    IF txt = JsonNumber
    THEN ObjectResponse([error |-> "'int' object is not iterable"])
    ELSE ObjectResponse([result |-> get_pinyin_permutations(txt)])

\* (a variant that applies the query's dns_settings before answering)
PinyinOverridesApplied(m, p) ==
    IF "dns_settings" \in p.keys /\ p.dns_settings # <<>>
    THEN ApplyEntry(m, Head(p.dns_settings)[1], Head(p.dns_settings)[2])
    ELSE m

\* handle_client 380-387: the pinyin branch returns before the dns_settings loop.
PinyinOverrides(m, p) == m

\* handle_client 372-407: the protocol version decides requests_list and
\* dns_settings; a pinyin query is answered at once.
Classify(c) ==
    /\ conn[c].pc = "classify"
    /\ LET p == conn[c].payload
           isV2 == Protocol(p) = "V2"
           isV3 == Protocol(p) = "V3"
           requests_list ==
               IF isV2 THEN p.requests
               ELSE IF p.type = "list" THEN p.requests
               ELSE <<FetchSpec(p.url)>>
           dns_settings ==
               IF isV2 /\ "dns_settings" \in p.keys THEN p.dns_settings ELSE <<>>
       IN  IF isV3
           THEN conn' = [conn EXCEPT ![c].pc = "done", ![c].ev = Log(c, "sendall"),
                            ![c].response = PinyinResponse(p.pinyin)]
           ELSE conn' = [conn EXCEPT
                            ![c].requests_list = requests_list,
                            ![c].dns_settings = dns_settings,
                            ![c].pc = AfterClassify(dns_settings, requests_list)]
    /\ CUSTOM_IP_MAP' = IF Protocol(conn[c].payload) = "V3"
                        THEN PinyinOverrides(CUSTOM_IP_MAP, conn[c].payload)
                        ELSE CUSTOM_IP_MAP
    /\ UNCHANGED <<poolVars, sessions, now>>
    /\ UNCHANGED nonHandlerVars

\* handle_client 409-418: one member of dns_settings.  A non-empty value is
\* stored unless equal; an empty one is first looked up (412) ...
DnsEntry(c) ==
    /\ conn[c].pc = "dns"
    /\ LET k == Head(conn[c].dns_settings)[1]
           v == Head(conn[c].dns_settings)[2]
           rest == Tail(conn[c].dns_settings)
           after == IF rest = <<>> THEN Dispatch(conn[c].requests_list) ELSE "dns"
       IN  IF v = "" /\ k \in DOMAIN CUSTOM_IP_MAP
           THEN /\ conn' = [conn EXCEPT ![c].pc = "dns_del"]
                /\ UNCHANGED CUSTOM_IP_MAP
           ELSE /\ CUSTOM_IP_MAP' = ApplyEntry(CUSTOM_IP_MAP, k, v)
                /\ conn' = [conn EXCEPT ![c].dns_settings = rest, ![c].pc = after]
    /\ UNCHANGED <<poolVars, sessions, now>>
    /\ UNCHANGED nonHandlerVars

\* ... and then deleted (413); the key may be gone by now (KeyError).
DnsDelete(c) ==
    /\ conn[c].pc = "dns_del"
    /\ LET k == Head(conn[c].dns_settings)[1]
           rest == Tail(conn[c].dns_settings)
           after == IF rest = <<>> THEN Dispatch(conn[c].requests_list) ELSE "dns"
       IN  IF k \in DOMAIN CUSTOM_IP_MAP
           THEN /\ CUSTOM_IP_MAP' = Del(CUSTOM_IP_MAP, k)
                /\ conn' = [conn EXCEPT ![c].dns_settings = rest, ![c].pc = after]
           ELSE /\ conn' = [conn EXCEPT ![c] = Aborted(@, "KeyError")]
                /\ UNCHANGED CUSTOM_IP_MAP
    /\ UNCHANGED <<poolVars, sessions, now>>
    /\ UNCHANGED nonHandlerVars

\* SessionManager.get_session 288-303, under its lock
\* The client is named after its domain and the call that created it.
\* A variant of SessionTable: a client is created at every call.
SessionTableAlwaysCreates(table, domain, c, i) == Put(table, domain, <<domain, c, i>>)

\* get_session 295-302: create the domain's client unless it has one
SessionTable(table, domain, c, i) ==
    IF domain \in DOMAIN table THEN table ELSE Put(table, domain, <<domain, c, i>>)

\* The table after the call made for item i of connection c (0: the single
\* spec on the handler's thread); the call returns the domain's entry.
get_session(url, c, i) == SessionTable(sessions, netloc(url), c, i)

\* handle_client 424, execute_request 326-333 on the handler's own thread
Single(c) ==
    /\ conn[c].pc = "single"
    /\ LET url == conn[c].requests_list[1].url
       IN  IF ~Truthy(url)
           THEN /\ conn' = [conn EXCEPT ![c].results = <<NoUrl>>, ![c].pc = "respond"]
                /\ UNCHANGED sessions
           ELSE /\ sessions' = get_session(url, c, 0)
                /\ conn' = [conn EXCEPT ![c].pc = "single_get",
                               ![c].ev = Log(c, "get_session"),
                               ![c].got = @ \cup {sessions'[netloc(url)]}]
    /\ UNCHANGED <<poolVars, now, CUSTOM_IP_MAP>>
    /\ UNCHANGED nonHandlerVars

\* doh_lookup 212-213 during session.get: the host of the url and the
\* override the resolution finds for it ("" for none), kept in saw (a history).
Resolved(url) ==
    <<netloc(url),
      IF netloc(url) \in DOMAIN CUSTOM_IP_MAP THEN CUSTOM_IP_MAP[netloc(url)] ELSE "">>

\* execute_request 335-351 on the handler's own thread
SingleGet(c) ==
    /\ conn[c].pc = "single_get"
    /\ \E r \in Outcomes(conn[c].requests_list[1].url) :
          conn' = [conn EXCEPT ![c].results = <<r>>, ![c].pc = "respond",
                      ![c].ev = Log(c, "session.get"),
                      ![c].saw = @ \cup {Resolved(conn[c].requests_list[1].url)}]
    /\ UNCHANGED <<poolVars, sessions, now, CUSTOM_IP_MAP>>
    /\ UNCHANGED nonHandlerVars

\* A variant of NewExecutor: the first executor again.
FirstExecutor(n) == 1

\* get_thread_pool 322: ThreadPoolExecutor(max_workers=5), the n-th one
NewExecutor(n) == n

\* (a variant that creates an executor at every call)
PoolAbsentAlways(pool) == TRUE

\* get_thread_pool 320: if THREAD_POOL is None
PoolAbsent(pool) == pool = NoPool

\* get_thread_pool 316-323, under POOL_LOCK
GetPool(c) ==
    /\ conn[c].pc = "get_pool"
    /\ LAST_POOL_USE' = now
    /\ IF PoolAbsent(THREAD_POOL)
       THEN /\ poolCount' = poolCount + 1
            /\ THREAD_POOL' = NewExecutor(poolCount + 1)
       ELSE UNCHANGED <<poolCount, THREAD_POOL>>
    /\ conn' = [conn EXCEPT ![c].executor = THREAD_POOL', ![c].pc = "submit",
                   ![c].ev = Log(c, "get_thread_pool")]
    /\ UNCHANGED <<poolShutdown, work_queue, sessions, now, CUSTOM_IP_MAP>>
    /\ UNCHANGED nonHandlerVars

\* executor.map 427: every item is submitted before the first result is
\* awaited; submit raises RuntimeError on an executor that was shut down.
Submit(c) ==
    /\ conn[c].pc = "submit"
    /\ LET i == Len(conn[c].futs) + 1
       IN  IF i > Len(conn[c].requests_list)
           THEN /\ conn' = [conn EXCEPT ![c].pc = "collect"]
                /\ UNCHANGED work_queue
           ELSE IF conn[c].executor \in poolShutdown
           THEN /\ conn' = [conn EXCEPT ![c] = Aborted(@, "RuntimeError")]
                /\ UNCHANGED work_queue
           ELSE /\ conn' = [conn EXCEPT ![c].futs = Append(@, [st |-> "queued", result |-> NoResult])]
                /\ work_queue' = Append(work_queue, <<conn[c].executor, c, i>>)
    /\ UNCHANGED <<THREAD_POOL, LAST_POOL_USE, poolCount, poolShutdown, sessions, now, CUSTOM_IP_MAP>>
    /\ UNCHANGED nonHandlerVars

\* The work items of executor p that a worker is running.
Running(p) ==
    {<<c, i>> \in (DOMAIN conn) \X (1..MaxBatch + 1) :
        /\ conn[c].executor = p
        /\ i <= Len(conn[c].futs)
        /\ conn[c].futs[i].st = "running"}

\* The position of the oldest queued work item of executor p (0: none).
Oldest(p) ==
    LET at == {n \in 1..Len(work_queue) : work_queue[n][1] = p}
    IN  IF at = {} THEN 0 ELSE CHOOSE n \in at : \A m \in at : n <= m

Remove(seq, n) == SubSeq(seq, 1, n - 1) \o SubSeq(seq, n + 1, Len(seq))

\* A worker of executor p takes the oldest work item and runs execute_request
\* up to session.get (326-333).
TaskStart(p) ==
    /\ Oldest(p) # 0
    /\ Cardinality(Running(p)) < max_workers
    /\ LET c == work_queue[Oldest(p)][2]
           i == work_queue[Oldest(p)][3]
           url == conn[c].requests_list[i].url
       IN  IF ~Truthy(url)
           THEN /\ conn' = [conn EXCEPT ![c].futs[i] = [st |-> "done", result |-> NoUrl],
                               ![c].completed = Append(@, i)]
                /\ UNCHANGED sessions
           ELSE /\ sessions' = get_session(url, c, i)
                /\ conn' = [conn EXCEPT ![c].futs[i].st = "running",
                               ![c].ev = Log(c, "get_session"),
                               ![c].got = @ \cup {sessions'[netloc(url)]}]
    /\ work_queue' = Remove(work_queue, Oldest(p))
    /\ UNCHANGED <<THREAD_POOL, LAST_POOL_USE, poolCount, poolShutdown, now, CUSTOM_IP_MAP>>
    /\ UNCHANGED nonHandlerVars

\* (a variant in which a fetch running on an executor that was shut down is
\* dropped)
TaskFinishUnlessShutDown(c, i) ==
    /\ i <= Len(conn[c].futs)
    /\ conn[c].futs[i].st = "running"
    /\ conn[c].executor \notin poolShutdown
    /\ \E r \in Outcomes(conn[c].requests_list[i].url) :
          conn' = [conn EXCEPT ![c].futs[i] = [st |-> "done", result |-> r],
                      ![c].completed = Append(@, i),
                      ![c].ev = Log(c, "session.get"),
                      ![c].saw = @ \cup {Resolved(conn[c].requests_list[i].url)}]
    /\ UNCHANGED <<poolVars, sessions, now, CUSTOM_IP_MAP>>
    /\ UNCHANGED nonHandlerVars

\* execute_request 335-351 in a worker: the fetch ends, in any order among
\* the running ones.
TaskFinish(c, i) ==
    /\ i <= Len(conn[c].futs)
    /\ conn[c].futs[i].st = "running"
    /\ \E r \in Outcomes(conn[c].requests_list[i].url) :
          conn' = [conn EXCEPT ![c].futs[i] = [st |-> "done", result |-> r],
                      ![c].completed = Append(@, i),
                      ![c].ev = Log(c, "session.get"),
                      ![c].saw = @ \cup {Resolved(conn[c].requests_list[i].url)}]
    /\ UNCHANGED <<poolVars, sessions, now, CUSTOM_IP_MAP>>
    /\ UNCHANGED nonHandlerVars

\* A variant of Yields: the results in completion order.
YieldsAsCompleted(h) ==
    {h.completed[n] : n \in {Len(h.results) + 1} \cap (1..Len(h.completed))}

\* Executor.map's result iterator: the futures in submission order, each
\* awaited in turn.
Yields(h) ==
    {i \in 1..Len(h.futs) : i = Len(h.results) + 1 /\ h.futs[i].st = "done"}

\* handle_client 427: list(...) takes the next result of the iterator
Collect(c) ==
    /\ conn[c].pc = "collect"
    /\ IF Len(conn[c].results) = Len(conn[c].futs)
       THEN conn' = [conn EXCEPT ![c].pc = "respond"]
       ELSE \E i \in Yields(conn[c]) :
               conn' = [conn EXCEPT ![c].results = Append(@, conn[c].futs[i].result)]
    /\ UNCHANGED <<poolVars, sessions, now, CUSTOM_IP_MAP>>
    /\ UNCHANGED nonHandlerVars

\* A variant of ResponseOf: a lone result is unwrapped.
ResponseUnwrapsOne(p, results) ==
    IF Len(results) = 1 THEN ObjectResponse(results[1]) ELSE ArrayResponse(results)

\* handle_client 430-433: the document for the payload and its results
ResponseOf(p, results) ==
    IF p.type = "dict" /\ "requests" \notin p.keys
    THEN ObjectResponse(results[1])
    ELSE ArrayResponse(results)

\* handle_client 429-433: a V1 single object gets its bare result, every
\* other request the array.
Respond(c) ==
    /\ conn[c].pc = "respond"
    /\ conn' = [conn EXCEPT ![c].pc = "done", ![c].ev = Log(c, "sendall"),
                   ![c].response = ResponseOf(conn[c].payload, conn[c].results)]
    /\ UNCHANGED <<poolVars, sessions, now, CUSTOM_IP_MAP>>
    /\ UNCHANGED nonHandlerVars

HandlerStep(c) ==
    \/ Recv(c)
    \/ \E n \in 0..MaxChunks : RecvClosed(c, n)
    \/ Classify(c)
    \/ DnsEntry(c)
    \/ DnsDelete(c)
    \/ Single(c)
    \/ SingleGet(c)
    \/ GetPool(c)
    \/ Submit(c)
    \/ Collect(c)
    \/ Respond(c)

WorkerStep ==
    \/ \E p \in 1..poolCount : TaskStart(p)
    \/ \E c \in DOMAIN conn, i \in 1..MaxBatch + 1 : TaskFinish(c, i)

HandlerNext ==
    \/ \E c \in Conns : \E p \in PayloadsOf(c) : Connect(c, p)
    \/ \E c \in Conns : HandlerStep(c)
    \/ WorkerStep

SpecHandler == HandlerInit /\ [][HandlerNext]_vars

\* The documents of the connections whose whole life is followed: a batch
\* with an override to remove, a bare object, a pinyin query.
LifePayloads ==
    {DictPayload({"requests", "dns_settings"}, <<FetchSpec(U1), FetchSpec(U2)>>,
                 << <<"api.tmdb.org", "">> >>, <<>>, None),
     DictPayload({"url"}, <<>>, <<>>, <<>>, U1),
     DictPayload({"pinyin"}, <<>>, <<>>, <<"a">>, None)}

LifeNext ==
    \/ \E c \in Conns : \E p \in LifePayloads : Connect(c, p)
    \/ \E c \in Conns : HandlerStep(c)
    \/ WorkerStep

\* Every peer completes its document or closes, every handler thread goes on
\* and every fetch returns (execute_request 336: timeout=30).
HandlerFairness ==
    /\ \A c \in Conns : WF_vars(HandlerStep(c))
    /\ WF_vars(WorkerStep)

SpecHandlerFair == HandlerInit /\ [][LifeNext]_vars /\ HandlerFairness

(***************************************************************************)
(*                    ACCEPT LOOP AND IDLE TIMERS                          *)
(***************************************************************************)

DEFAULT_PORT == "56789"

\* The port the system picks for bind((HOST, 0)).
EphemeralPort == "49152"

IDLE_TIMEOUT == 20

POOL_TIMEOUT == 20

\* Time is counted in seconds and observed every TickLen seconds, up to MaxTime.
TickLen == 5

MaxTime == 30

\* The documents a client of the running daemon sends.
DaemonPayloads ==
    {DictPayload({"requests", "dns_settings"}, <<FetchSpec(U1), FetchSpec(U2)>>,
                 << <<"api.tmdb.org", "">> >>, <<>>, None),
     DictPayload({"url"}, <<>>, <<>>, <<>>, U1)}

\* The daemon's clients come one after the other.
DaemonConns == {"c1"}

DaemonInit ==
    /\ conn = [c \in DaemonConns |-> NoHandler]
    /\ THREAD_POOL = NoPool /\ LAST_POOL_USE = 0 /\ poolCount = 0
    /\ poolShutdown = {} /\ work_queue = <<>> /\ sessions = <<>> /\ now = 0
    /\ spc = "bind" /\ last_activity = 0 /\ portProperty = "" /\ boundPort = ""
    /\ polled = FALSE /\ abort = FALSE
    /\ CUSTOM_IP_MAP = Put(EmptyMap, "api.tmdb.org", "20.0.0.2")
    /\ CHAR_MAP = CHOOSE m \in CharMapChoices : "U+4E50" \in DOMAIN m
    /\ text = <<>> /\ result = None
    /\ LookupRest /\ OverrideRest /\ LockRest /\ ClientRest

\* start_server 450-452: bind to the default port, or find it in use
BindDefault ==
    /\ spc = "bind"
    /\ \E free \in BOOLEAN :
          IF free THEN boundPort' = DEFAULT_PORT /\ spc' = "publish"
                  ELSE boundPort' = boundPort /\ spc' = "bind_random"
    /\ UNCHANGED <<last_activity, portProperty, polled, abort>>
    /\ UNCHANGED <<conn, poolVars, sessions, now>>
    /\ UNCHANGED nonDaemonVars

\* start_server 453-457: bind to a port of the system's choice; a second
\* OSError leaves through the exception handler
BindRandom ==
    /\ spc = "bind_random"
    /\ \E ok \in BOOLEAN :
          IF ok THEN boundPort' = EphemeralPort /\ spc' = "publish"
                ELSE boundPort' = boundPort /\ spc' = "finally"
    /\ UNCHANGED <<last_activity, portProperty, polled, abort>>
    /\ UNCHANGED <<conn, poolVars, sessions, now>>
    /\ UNCHANGED nonDaemonVars

\* start_server 460-462: getsockname, listen or setblocking raised
ListenError ==
    /\ spc = "publish"
    /\ spc' = "except"
    /\ UNCHANGED <<last_activity, portProperty, boundPort, polled, abort>>
    /\ UNCHANGED <<conn, poolVars, sessions, now>>
    /\ UNCHANGED nonDaemonVars

\* (a variant that announces the default port whatever the socket is bound to)
PublishDefaultPort ==
    /\ spc = "publish"
    /\ portProperty' = DEFAULT_PORT
    /\ last_activity' = now
    /\ spc' = "select"
    /\ UNCHANGED <<boundPort, polled, abort>>
    /\ UNCHANGED <<conn, poolVars, sessions, now>>
    /\ UNCHANGED nonDaemonVars

\* start_server 459-471: listen, publish the port, start the idle timer
Publish ==
    /\ spc = "publish"
    /\ portProperty' = boundPort
    /\ last_activity' = now
    /\ spc' = "select"
    /\ UNCHANGED <<boundPort, polled, abort>>
    /\ UNCHANGED <<conn, poolVars, sessions, now>>
    /\ UNCHANGED nonDaemonVars

\* start_server 473: the host asked the script to stop
LoopAbort ==
    /\ spc = "select" /\ abort
    /\ spc' = "finally"
    /\ polled' = TRUE
    /\ UNCHANGED <<last_activity, portProperty, boundPort, abort>>
    /\ UNCHANGED <<conn, poolVars, sessions, now>>
    /\ UNCHANGED nonDaemonVars

\* start_server 475-484: a client that read the published port has connected;
\* the connection is accepted and its handler thread started.
Accept(c, p) ==
    /\ spc = "select" /\ ~abort
    /\ portProperty = boundPort
    /\ conn[c].pc \in {"closed", "done"}
    /\ \A i \in 1..Len(conn[c].futs) : conn[c].futs[i].st = "done"
    /\ last_activity' = now
    /\ conn' = [conn EXCEPT ![c] = [NoHandler EXCEPT !.pc = "recv", !.payload = p]]
    /\ spc' = "pool_check"
    /\ polled' = TRUE
    /\ UNCHANGED <<portProperty, boundPort, abort>>
    /\ UNCHANGED <<poolVars, sessions, now>>
    /\ UNCHANGED nonDaemonVars

\* start_server 475-483: select reported the socket readable and
\* server.accept() (or the start of the handler thread) raised, after
\* last_activity was set; the exception leaves the while loop for the
\* handler at 496.
AcceptError ==
    /\ spc = "select" /\ ~abort
    /\ portProperty = boundPort
    /\ last_activity' = now
    /\ spc' = "except"
    /\ polled' = TRUE
    /\ UNCHANGED <<portProperty, boundPort, abort>>
    /\ UNCHANGED <<conn, poolVars, sessions, now>>
    /\ UNCHANGED nonDaemonVars

\* start_server 496-497: the exception is logged; the finally clause follows
LoopExcept ==
    /\ spc = "except"
    /\ spc' = "finally"
    /\ UNCHANGED <<last_activity, portProperty, boundPort, polled, abort>>
    /\ UNCHANGED <<conn, poolVars, sessions, now>>
    /\ UNCHANGED nonDaemonVars

\* (a variant that finds the daemon idle once the threshold is reached)
IdleExpiredAtThreshold == now - last_activity >= IDLE_TIMEOUT

\* A variant of IdleExpired: the idle threshold is never found exceeded.
IdleNeverExpired == FALSE

\* start_server 485: time.time() - last_activity > IDLE_TIMEOUT
IdleExpired == now - last_activity > IDLE_TIMEOUT

\* start_server 475, 485: select timed out and the daemon is not idle yet
SelectTimeout ==
    /\ spc = "select" /\ ~abort
    /\ ~IdleExpired
    /\ spc' = "pool_check"
    /\ polled' = TRUE
    /\ UNCHANGED <<last_activity, portProperty, boundPort, abort>>
    /\ UNCHANGED <<conn, poolVars, sessions, now>>
    /\ UNCHANGED nonDaemonVars

\* start_server 485-487: select timed out and nothing was accepted for more
\* than IDLE_TIMEOUT: break
IdleBreak ==
    /\ spc = "select" /\ ~abort
    /\ IdleExpired
    /\ spc' = "finally"
    /\ polled' = TRUE
    /\ UNCHANGED <<last_activity, portProperty, boundPort, abort>>
    /\ UNCHANGED <<conn, poolVars, sessions, now>>
    /\ UNCHANGED nonDaemonVars

\* (a variant that does not look at the time of the last use)
PoolExpiredAtOnce == THREAD_POOL # NoPool

\* start_server 491: THREAD_POOL and (time.time() - LAST_POOL_USE > POOL_TIMEOUT)
PoolExpired == THREAD_POOL # NoPool /\ now - LAST_POOL_USE > POOL_TIMEOUT

\* (a variant whose idle check empties the session table as well)
PoolCheckEvictsSessions ==
    /\ spc = "pool_check"
    /\ IF PoolExpired
       THEN /\ poolShutdown' = poolShutdown \cup {THREAD_POOL}
            /\ THREAD_POOL' = NoPool
            /\ sessions' = <<>>
       ELSE UNCHANGED <<poolShutdown, THREAD_POOL, sessions>>
    /\ spc' = "select"
    /\ UNCHANGED <<last_activity, portProperty, boundPort, polled, abort>>
    /\ UNCHANGED <<conn, LAST_POOL_USE, poolCount, work_queue, now>>
    /\ UNCHANGED nonDaemonVars

\* start_server 489-494, under POOL_LOCK
PoolCheck ==
    /\ spc = "pool_check"
    /\ IF PoolExpired
       THEN /\ poolShutdown' = poolShutdown \cup {THREAD_POOL}
            /\ THREAD_POOL' = NoPool
       ELSE UNCHANGED <<poolShutdown, THREAD_POOL>>
    /\ spc' = "select"
    /\ UNCHANGED <<last_activity, portProperty, boundPort, polled, abort>>
    /\ UNCHANGED <<conn, LAST_POOL_USE, poolCount, work_queue, sessions, now>>
    /\ UNCHANGED nonDaemonVars

\* start_server 498-501: close the socket, clear the published port
Finally ==
    /\ spc = "finally"
    /\ portProperty' = ""
    /\ spc' = "drain"
    /\ UNCHANGED <<last_activity, boundPort, polled, abort>>
    /\ UNCHANGED <<conn, poolVars, sessions, now>>
    /\ UNCHANGED nonDaemonVars

\* (a variant whose exit leaves the pool as it is)
DrainLeavesPool ==
    /\ spc = "drain"
    /\ spc' = "stopped"
    /\ UNCHANGED <<last_activity, portProperty, boundPort, polled, abort>>
    /\ UNCHANGED <<conn, poolVars, sessions, now>>
    /\ UNCHANGED nonDaemonVars

\* start_server 503-508, under POOL_LOCK
Drain ==
    /\ spc = "drain"
    /\ IF THREAD_POOL # NoPool
       THEN /\ poolShutdown' = poolShutdown \cup {THREAD_POOL}
            /\ THREAD_POOL' = NoPool
       ELSE UNCHANGED <<poolShutdown, THREAD_POOL>>
    /\ spc' = "stopped"
    /\ UNCHANGED <<last_activity, portProperty, boundPort, polled, abort>>
    /\ UNCHANGED <<conn, LAST_POOL_USE, poolCount, work_queue, sessions, now>>
    /\ UNCHANGED nonDaemonVars

\* monitor.abortRequested() turns true.
AbortRequest ==
    /\ ~abort /\ spc # "stopped"
    /\ abort' = TRUE
    /\ UNCHANGED <<spc, last_activity, portProperty, boundPort, polled>>
    /\ UNCHANGED <<conn, poolVars, sessions, now>>
    /\ UNCHANGED nonDaemonVars

\* A thread that is not waiting for the network, a peer or a timeout goes on
\* within the second.
HandlerBusy(h) ==
    \/ h.pc \in {"classify", "dns", "dns_del", "single", "get_pool", "submit", "respond"}
    \/ h.pc = "collect" /\ (Len(h.results) = Len(h.futs) \/ Yields(h) # {})

WorkerBusy == \E p \in 1..poolCount : Oldest(p) # 0 /\ Cardinality(Running(p)) < max_workers

\* select waits one second at most: the loop comes round between two
\* observations of the clock.
ServerBusy ==
    \/ spc \in {"bind", "bind_random", "publish", "pool_check", "except", "finally", "drain"}
    \/ spc = "select" /\ ~polled

Tick ==
    /\ now + TickLen <= MaxTime
    /\ ~ServerBusy /\ ~WorkerBusy
    /\ \A c \in DOMAIN conn : ~HandlerBusy(conn[c])
    /\ now' = now + TickLen
    /\ polled' = FALSE
    /\ UNCHANGED <<spc, last_activity, portProperty, boundPort, abort>>
    /\ UNCHANGED <<conn, poolVars, sessions>>
    /\ UNCHANGED nonDaemonVars

ServerStep ==
    \/ BindDefault
    \/ BindRandom
    \/ Publish
    \/ ListenError
    \/ LoopAbort
    \/ SelectTimeout
    \/ IdleBreak
    \/ LoopExcept
    \/ PoolCheck
    \/ Finally
    \/ Drain

DaemonNext ==
    \/ ServerStep
    \/ \E c \in DaemonConns, p \in DaemonPayloads : Accept(c, p)
    \/ AcceptError
    \/ AbortRequest
    \/ Tick
    \/ \E c \in DaemonConns : HandlerStep(c)
    \/ WorkerStep

SpecDaemon == DaemonInit /\ [][DaemonNext]_vars

\* The loop, the handlers' own steps and the workers go on; a fetch ends
\* within its timeout.  Nothing obliges a peer to send its document.
DaemonFairness ==
    /\ WF_vars(ServerStep)
    /\ \A c \in DaemonConns :
          WF_vars(Classify(c) \/ DnsEntry(c) \/ DnsDelete(c) \/ Single(c) \/ SingleGet(c)
                    \/ GetPool(c) \/ Submit(c) \/ Collect(c) \/ Respond(c))
    /\ WF_vars(WorkerStep)

SpecDaemonFair == SpecDaemon /\ DaemonFairness

\* ---- a long batch on one connection while another connection is served ----

BusyConns == {"c1", "c2"}

\* c1 sends batches of two fetch specs, c2 bare objects.
BusyPayload(c) ==
    IF c = "c1"
    THEN DictPayload({"requests"}, <<FetchSpec(U1), FetchSpec(U2)>>, <<>>, <<>>, None)
    ELSE DictPayload({"url"}, <<>>, <<>>, <<>>, U1)

\* The daemon has bound the default port and published it (start_server 450-471).
BusyInit ==
    /\ conn = [c \in BusyConns |-> NoHandler]
    /\ THREAD_POOL = NoPool /\ LAST_POOL_USE = 0 /\ poolCount = 0
    /\ poolShutdown = {} /\ work_queue = <<>> /\ sessions = <<>> /\ now = 0
    /\ spc = "select" /\ last_activity = 0
    /\ portProperty = DEFAULT_PORT /\ boundPort = DEFAULT_PORT
    /\ polled = FALSE /\ abort = FALSE
    /\ CUSTOM_IP_MAP = EmptyMap
    /\ CHAR_MAP = CHOOSE m \in CharMapChoices : "U+4E50" \in DOMAIN m
    /\ text = <<>> /\ result = None
    /\ LookupRest /\ OverrideRest /\ LockRest /\ ClientRest

BusyServerStep == SelectTimeout \/ IdleBreak \/ PoolCheck \/ Finally \/ Drain

BusyHandlerStep(c) ==
    \/ Classify(c) \/ Single(c) \/ SingleGet(c)
    \/ GetPool(c) \/ Submit(c) \/ Collect(c) \/ Respond(c)

BusyNext ==
    \/ BusyServerStep
    \/ \E c \in BusyConns : Accept(c, BusyPayload(c))
    \/ Tick
    \/ \E c \in BusyConns : Recv(c)
    \/ \E c \in BusyConns : BusyHandlerStep(c)
    \/ WorkerStep

\* The loop, the handlers' own steps and the workers go on; every fetch
\* returns (execute_request 336: timeout=30).
SpecBusy ==
    /\ BusyInit /\ [][BusyNext]_vars
    /\ WF_vars(BusyServerStep)
    /\ \A c \in BusyConns : WF_vars(BusyHandlerStep(c))
    /\ WF_vars(WorkerStep)

(***************************************************************************)
(*                  THE THREE LOCKS AND THEIR SECTIONS                     *)
(***************************************************************************)

\* DNS_LOCK (18), SessionManager._lock (286), POOL_LOCK (312)
Locks == {"DNS_LOCK", "_lock", "POOL_LOCK"}

Free == "free"

\* Two threads running execute_request (a worker of the pool, or a handler
\* with a single spec), one handler with a batch, and the server thread.
Fetchers == {"w1", "w2"}

BatchHandlers == {"h1"}

ServerThread == "srv"

LockThreads == Fetchers \cup BatchHandlers \cup {ServerThread}

\* The host the fetching threads ask for and the address DoH answers.
LockHost == "api.tmdb.org"

LockIP == "13.0.0.1"

LockInit ==
    /\ locks = [l \in Locks |-> Free]
    /\ th = [t \in LockThreads |-> IF t = ServerThread THEN "loop" ELSE "start"]
    /\ ResolverRest /\ PinyinRest /\ OverrideRest /\ HandlerRest /\ ServerRest /\ ClientRest

\* The locks a thread holds.
Held(t) == {l \in Locks : locks[l] = t}

\* `with lock:` entered: threading.Lock is not reentrant, the thread waits
\* until the lock is free, whoever holds it.
Acquire(t, from, l, to) ==
    /\ th[t] = from
    /\ locks[l] = Free
    /\ locks' = [locks EXCEPT ![l] = t]
    /\ th' = [th EXCEPT ![t] = to]

\* the `with` block left
Release(t, from, l, to) ==
    /\ th[t] = from
    /\ locks' = [locks EXCEPT ![l] = Free]
    /\ th' = [th EXCEPT ![t] = to]

\* a step that touches no lock
Goto(t, from, to) ==
    /\ th[t] = from
    /\ th' = [th EXCEPT ![t] = to]
    /\ UNCHANGED locks

\* ---- execute_request 333: session_manager.get_session(url) ----

\* get_session 294
SessionAcquire(t) ==
    /\ Acquire(t, "start", "_lock", "gs_body")
    /\ UNCHANGED <<DNS_CACHE, poolVars, sessions, nonLockVars>>

\* get_session 295-302
SessionBody(t) ==
    /\ Goto(t, "gs_body", "gs_release")
    /\ sessions' = SessionTable(sessions, LockHost, t, 0)
    /\ UNCHANGED <<DNS_CACHE, poolVars, nonLockVars>>

\* get_session 303: return inside the with block
SessionRelease(t) ==
    /\ Release(t, "gs_release", "_lock", "dl_acquire")
    /\ UNCHANGED <<DNS_CACHE, poolVars, sessions, nonLockVars>>

\* ---- execute_request 336: session.get -> getaddrinfo -> doh_lookup ----

\* doh_lookup 223
CacheReadAcquire(t) ==
    /\ Acquire(t, "dl_acquire", "DNS_LOCK", "dl_read")
    /\ UNCHANGED <<DNS_CACHE, poolVars, sessions, nonLockVars>>

\* (a variant that keeps DNS_LOCK while it asks the providers)
MissNextKeepsLock == "doh_net"

\* doh_lookup 224-226: on a miss the with block ends before the providers
\* are asked
MissNext == "dl_release"

\* doh_lookup 224-225
CacheRead(t) ==
    /\ Goto(t, "dl_read", IF LockHost \in DOMAIN DNS_CACHE THEN "dl_hit" ELSE MissNext)
    /\ UNCHANGED <<DNS_CACHE, poolVars, sessions, nonLockVars>>

\* doh_lookup 225: return inside the with block
CacheHitRelease(t) ==
    /\ Release(t, "dl_hit", "DNS_LOCK", "connect")
    /\ UNCHANGED <<DNS_CACHE, poolVars, sessions, nonLockVars>>

\* doh_lookup 223-226: the with block left without a return
CacheMissRelease(t) ==
    /\ Release(t, "dl_release", "DNS_LOCK", "doh_net")
    /\ UNCHANGED <<DNS_CACHE, poolVars, sessions, nonLockVars>>

\* doh_lookup 237-258: requests.get to the providers; an A record leads to
\* the write, no provider answering leads to `return None` (260)
DohRequest(t) ==
    /\ \E answered \in BOOLEAN :
          Goto(t, "doh_net", IF answered THEN "dw_acquire" ELSE "connect")
    /\ UNCHANGED <<DNS_CACHE, poolVars, sessions, nonLockVars>>

\* doh_lookup 252
CacheWriteAcquire(t) ==
    /\ Acquire(t, "dw_acquire", "DNS_LOCK", "dw_write")
    /\ UNCHANGED <<DNS_CACHE, poolVars, sessions, nonLockVars>>

\* doh_lookup 253
CacheStore(t) ==
    /\ Goto(t, "dw_write", "dw_release")
    /\ DNS_CACHE' = Put(DNS_CACHE, LockHost, LockIP)
    /\ UNCHANGED <<poolVars, sessions, nonLockVars>>

\* doh_lookup 252-254
CacheWriteRelease(t) ==
    /\ Release(t, "dw_release", "DNS_LOCK", "connect")
    /\ UNCHANGED <<DNS_CACHE, poolVars, sessions, nonLockVars>>

\* execute_request 336-346: the request itself, answered or failed
FetchUrl(t) ==
    /\ Goto(t, "connect", "done")
    /\ UNCHANGED <<DNS_CACHE, poolVars, sessions, nonLockVars>>

FetcherStep(t) ==
    \/ SessionAcquire(t) \/ SessionBody(t) \/ SessionRelease(t)
    \/ CacheReadAcquire(t) \/ CacheRead(t) \/ CacheHitRelease(t) \/ CacheMissRelease(t)
    \/ DohRequest(t)
    \/ CacheWriteAcquire(t) \/ CacheStore(t) \/ CacheWriteRelease(t)
    \/ FetchUrl(t)

\* ---- handle_client 402: get_thread_pool() ----

\* get_thread_pool 318
PoolGetAcquire(t) ==
    /\ Acquire(t, "start", "POOL_LOCK", "gp_body")
    /\ UNCHANGED <<DNS_CACHE, poolVars, sessions, nonLockVars>>

\* get_thread_pool 319-322
PoolGetBody(t) ==
    /\ Goto(t, "gp_body", "gp_release")
    /\ LAST_POOL_USE' = now
    /\ IF THREAD_POOL = NoPool
       THEN /\ poolCount' = poolCount + 1
            /\ THREAD_POOL' = NewExecutor(poolCount + 1)
       ELSE UNCHANGED <<THREAD_POOL, poolCount>>
    /\ UNCHANGED <<DNS_CACHE, poolShutdown, work_queue, sessions, nonLockVars>>

\* get_thread_pool 323: return inside the with block; the handler may come
\* back with its next batch while the table of pools is small
PoolGetRelease(t) ==
    /\ \E again \in BOOLEAN :
          /\ again => poolCount < MaxBatch
          /\ Release(t, "gp_release", "POOL_LOCK", IF again THEN "start" ELSE "done")
    /\ UNCHANGED <<DNS_CACHE, poolVars, sessions, nonLockVars>>

BatchHandlerStep(t) == PoolGetAcquire(t) \/ PoolGetBody(t) \/ PoolGetRelease(t)

\* ---- start_server 473-508 ----

\* start_server 473-487: the loop comes round to the pool check, or is left
LoopRound ==
    /\ \E leave \in BOOLEAN :
          Goto(ServerThread, "loop", IF leave THEN "fin_acquire" ELSE "check_acquire")
    /\ UNCHANGED <<DNS_CACHE, poolVars, sessions, nonLockVars>>

\* start_server 490
CheckAcquire ==
    /\ Acquire(ServerThread, "check_acquire", "POOL_LOCK", "check_body")
    /\ UNCHANGED <<DNS_CACHE, poolVars, sessions, nonLockVars>>

\* start_server 491-494; whether POOL_TIMEOUT has elapsed is the clock's
\* business
CheckBody ==
    /\ Goto(ServerThread, "check_body", "check_release")
    /\ \E elapsed \in BOOLEAN :
          IF THREAD_POOL # NoPool /\ elapsed
          THEN /\ poolShutdown' = poolShutdown \cup {THREAD_POOL}
               /\ THREAD_POOL' = NoPool
          ELSE UNCHANGED <<THREAD_POOL, poolShutdown>>
    /\ UNCHANGED <<DNS_CACHE, LAST_POOL_USE, poolCount, work_queue, sessions, nonLockVars>>

\* start_server 490-494
CheckRelease ==
    /\ Release(ServerThread, "check_release", "POOL_LOCK", "loop")
    /\ UNCHANGED <<DNS_CACHE, poolVars, sessions, nonLockVars>>

\* start_server 504
FinallyAcquire ==
    /\ Acquire(ServerThread, "fin_acquire", "POOL_LOCK", "fin_body")
    /\ UNCHANGED <<DNS_CACHE, poolVars, sessions, nonLockVars>>

\* start_server 505-508
FinallyBody ==
    /\ Goto(ServerThread, "fin_body", "fin_release")
    /\ IF THREAD_POOL # NoPool
       THEN /\ poolShutdown' = poolShutdown \cup {THREAD_POOL}
            /\ THREAD_POOL' = NoPool
       ELSE UNCHANGED <<THREAD_POOL, poolShutdown>>
    /\ UNCHANGED <<DNS_CACHE, LAST_POOL_USE, poolCount, work_queue, sessions, nonLockVars>>

\* start_server 504-508
FinallyRelease ==
    /\ Release(ServerThread, "fin_release", "POOL_LOCK", "done")
    /\ UNCHANGED <<DNS_CACHE, poolVars, sessions, nonLockVars>>

LockServerStep ==
    \/ LoopRound
    \/ CheckAcquire \/ CheckBody \/ CheckRelease
    \/ FinallyAcquire \/ FinallyBody \/ FinallyRelease

LockNext ==
    \/ \E t \in Fetchers : FetcherStep(t)
    \/ \E t \in BatchHandlers : BatchHandlerStep(t)
    \/ LockServerStep

SpecLocks == LockInit /\ [][LockNext]_vars

(***************************************************************************)
(*              CLIENTS (api_utils.py) AND THE SCRIPTS THEY LAUNCH         *)
(***************************************************************************)

\* ensure_daemon_started 80: for _ in range(50)
POLL_ATTEMPTS == 50

\* The daemon scripts the host can run, one more per RunScript.
MaxDaemons == 2

Daemons == 1..MaxDaemons

\* The port the system picks for the bind((HOST, 0)) of script d.
EphemeralPortOf(d) == IF d = 1 THEN "49152" ELSE IF d = 2 THEN "49153" ELSE "49154"

NoDaemon == [st |-> "none", port |-> ""]

\* load_info_from_service's locals: seen is the last value getProperty gave,
\* ret what ensure_daemon_started returned last, retry whether the call is
\* in its ConnectionRefusedError branch; launches and connects count the
\* RunScript and connect calls of the present call.
NoCall ==
    [pc |-> "idle", seen |-> "", ret |-> "none", retry |-> FALSE, polls |-> 0,
     launches |-> 0, connects |-> 0, port |-> "", out |-> "none"]

\* The scraper calls load_info_from_service from one thread, again and again.
Clients == {"k1"}

ClientInit ==
    /\ cl = [k \in Clients |-> NoCall]
    /\ dm = [d \in Daemons |-> NoDaemon]
    /\ ResolverRest /\ PinyinRest /\ OverrideRest /\ HandlerRest /\ LockRest
    /\ spc = "select" /\ last_activity = 0 /\ portProperty = "" /\ boundPort = "56789"
    /\ polled = FALSE /\ abort = FALSE

\* ---- the daemon script, as its clients see it (start_server 440-510) ----

\* The scripts whose socket is bound to port p and not closed yet.
Holding(p) == {d \in DOMAIN dm : dm[d].st \in {"bound", "listening"} /\ dm[d].port = p}

\* The scripts a connect to port p reaches: listen was called (461) and the
\* socket is not closed (499).
Reachable(p) == {d \in DOMAIN dm : dm[d].st = "listening" /\ dm[d].port = p}

\* xbmc.executebuiltin('RunScript(...)') 77: the host starts one more script
\* (nothing when it runs no more of them).
RunScript(scripts) ==
    IF \E d \in DOMAIN scripts : scripts[d].st = "none"
    THEN LET d == CHOOSE x \in DOMAIN scripts :
                      scripts[x].st = "none" /\ \A y \in DOMAIN scripts : scripts[y].st = "none" => x <= y
         IN  [scripts EXCEPT ![d].st = "starting"]
    ELSE scripts

\* start_server 450-457: the default port, or a port of the system's choice
\* when the default one is taken
DaemonBind(d) ==
    /\ dm[d].st = "starting"
    /\ dm' = [dm EXCEPT ![d].st = "bound",
                 ![d].port = IF Holding(DEFAULT_PORT) = {} THEN DEFAULT_PORT ELSE EphemeralPortOf(d)]
    /\ UNCHANGED <<cl, portProperty, nonClientVars>>

\* start_server 460-466: listen, then setProperty(str(port))
DaemonPublish(d) ==
    /\ dm[d].st = "bound"
    /\ dm' = [dm EXCEPT ![d].st = "listening"]
    /\ portProperty' = dm[d].port
    /\ UNCHANGED <<cl, nonClientVars>>

\* start_server 473, 485-487, 496-499: the accept loop is left (idle, abort
\* or an exception) and the finally clause closes the listening socket
DaemonLeaveLoop(d) ==
    /\ dm[d].st = "listening"
    /\ dm' = [dm EXCEPT ![d].st = "closed"]
    /\ UNCHANGED <<cl, portProperty, nonClientVars>>

\* (a variant that clears the property only while it names the script's port)
ClearedByOwner(prop, port) == IF prop = port THEN "" ELSE prop

\* start_server 501: clearProperty, whatever the property holds
Cleared(prop, port) == ""

\* start_server 501-510: the property is cleared and the script ends
DaemonClear(d) ==
    /\ dm[d].st = "closed"
    /\ dm' = [dm EXCEPT ![d] = [st |-> "stopped", port |-> ""]]
    /\ portProperty' = Cleared(portProperty, dm[d].port)
    /\ UNCHANGED <<cl, nonClientVars>>

DaemonScriptStep(d) ==
    \/ DaemonBind(d)
    \/ DaemonPublish(d)
    \/ DaemonLeaveLoop(d)
    \/ DaemonClear(d)

\* ---- ensure_daemon_started 65-87, inside load_info_from_service ----

\* load_info_from_service is called
ClientCall(k) ==
    /\ cl[k].pc \in {"idle", "done", "failed"}
    /\ cl' = [cl EXCEPT ![k] = [NoCall EXCEPT !.pc = "e_check"]]
    /\ UNCHANGED <<dm, portProperty, nonClientVars>>

\* Where the caller goes on with what ensure_daemon_started returned:
\* 136-137 and 155-162.
AfterEnsure(c, ok) ==
    IF c.retry
    THEN IF ok THEN "r_read_port" ELSE "failed"
    ELSE IF ok THEN "read_port" ELSE "failed"

EnsureReturned(c, ok) ==
    [c EXCEPT !.ret = IF ok THEN "True" ELSE "False", !.pc = AfterEnsure(c, ok),
              !.out = IF ok THEN c.out ELSE "error"]

\* ensure_daemon_started 70-71: a published port means the daemon runs
EnsureCheck(k) ==
    /\ cl[k].pc = "e_check"
    /\ cl' = [cl EXCEPT ![k] =
                 IF portProperty # ""
                 THEN EnsureReturned([@ EXCEPT !.seen = portProperty], TRUE)
                 ELSE [@ EXCEPT !.seen = portProperty, !.pc = "e_launch"]]
    /\ UNCHANGED <<dm, portProperty, nonClientVars>>

\* ensure_daemon_started 73-77
EnsureLaunch(k) ==
    /\ cl[k].pc = "e_launch"
    /\ dm' = RunScript(dm)
    /\ cl' = [cl EXCEPT ![k].launches = @ + 1, ![k].polls = 0, ![k].pc = "e_poll"]
    /\ UNCHANGED <<portProperty, nonClientVars>>

\* (a variant whose loop goes on until the port is published)
GivesUpNever(polls) == FALSE

\* ensure_daemon_started 80: the loop ends after POLL_ATTEMPTS rounds
GivesUp(polls) == polls >= POLL_ATTEMPTS

\* ensure_daemon_started 80-87: one round of the loop (getProperty, then
\* sleep), or the return after the last round
EnsurePoll(k) ==
    /\ cl[k].pc = "e_poll"
    /\ cl' = [cl EXCEPT ![k] =
                 IF GivesUp(@.polls) THEN EnsureReturned(@, FALSE)
                 ELSE IF portProperty # ""
                 THEN EnsureReturned([@ EXCEPT !.seen = portProperty, !.polls = @ + 1], TRUE)
                 ELSE [@ EXCEPT !.seen = portProperty, !.polls = @ + 1]]
    /\ UNCHANGED <<dm, portProperty, nonClientVars>>

\* ---- load_info_from_service 139-162 ----

\* 141-145: the port is read again; an empty property is an error result
ReadPort(k) ==
    /\ cl[k].pc = "read_port"
    /\ cl' = [cl EXCEPT ![k] =
                 IF portProperty # ""
                 THEN [@ EXCEPT !.port = portProperty, !.pc = "connect"]
                 ELSE [@ EXCEPT !.pc = "failed", !.out = "error"]]
    /\ UNCHANGED <<dm, portProperty, nonClientVars>>

\* 147-151: connect; a port nobody listens on refuses
Connect1(k) ==
    /\ cl[k].pc = "connect"
    /\ cl' = [cl EXCEPT ![k].connects = @ + 1,
                 ![k].pc = IF Reachable(cl[k].port) # {} THEN "done" ELSE "r_clear",
                 ![k].out = IF Reachable(cl[k].port) # {} THEN "connected" ELSE "none"]
    /\ UNCHANGED <<dm, portProperty, nonClientVars>>

\* 152-154: the refused client clears the property before it starts over
RetryClear(k) ==
    /\ cl[k].pc = "r_clear"
    /\ portProperty' = ""
    /\ cl' = [cl EXCEPT ![k].retry = TRUE, ![k].ret = "none", ![k].pc = "e_check"]
    /\ UNCHANGED <<dm, nonClientVars>>

\* 156-157: int(getProperty(...)); int('') raises ValueError
RetryReadPort(k) ==
    /\ cl[k].pc = "r_read_port"
    /\ cl' = [cl EXCEPT ![k] =
                 IF portProperty # ""
                 THEN [@ EXCEPT !.port = portProperty, !.pc = "r_connect"]
                 ELSE [@ EXCEPT !.pc = "failed", !.out = "error"]]
    /\ UNCHANGED <<dm, portProperty, nonClientVars>>

\* 158-160: the second connect; a refusal now reaches the outer except
RetryConnect(k) ==
    /\ cl[k].pc = "r_connect"
    /\ cl' = [cl EXCEPT ![k].connects = @ + 1,
                 ![k].pc = IF Reachable(cl[k].port) # {} THEN "done" ELSE "failed",
                 ![k].out = IF Reachable(cl[k].port) # {} THEN "connected" ELSE "error"]
    /\ UNCHANGED <<dm, portProperty, nonClientVars>>

\* The steps of a call once it is made.
ClientStep(k) ==
    \/ EnsureCheck(k)
    \/ EnsureLaunch(k)
    \/ EnsurePoll(k)
    \/ ReadPort(k)
    \/ Connect1(k)
    \/ RetryClear(k)
    \/ RetryReadPort(k)
    \/ RetryConnect(k)

ClientNext ==
    \/ \E k \in DOMAIN cl : ClientCall(k)
    \/ \E k \in DOMAIN cl : ClientStep(k)
    \/ \E d \in DOMAIN dm : DaemonScriptStep(d)

\* A call goes on once it is made; the scripts run at their own pace.
SpecClient == ClientInit /\ [][ClientNext]_vars /\ \A k \in Clients : WF_vars(ClientStep(k))

(***************************************************************************)
(*                    Properties of the resolver                           *)
(***************************************************************************)

Ended(r) == r.pc \in {"gai_ret", "done", "raised"}

Has(r, e) == \E i \in 1..Len(r.ev) : r.ev[i] = e

ChainEvents == {"custom_hit", "probe_ok", "probe_fail", "cache_hit", "cache_miss",
                "doh_request", "cache_write"}

\* C2: a lookup whose name is a key of HOSTS_MAP returns the mapped address
\* (it does not raise) and performs no override read, no probe, no cache
\* access and no DoH request.
C2_HostsEntryAlwaysReturned ==
    \A t \in {"t1"} :
        (Has(lk[t], "hosts_hit") /\ Ended(lk[t])) =>
            /\ lk[t].pc # "raised"
            /\ lk[t].dret = "10.0.0.1"
            /\ Count(lk[t].ev, ChainEvents) = 0

\* C3: after a failed probe of an override the lookup goes on with the cache
\* and then the DoH chain and does not return the override address; no
\* override address is ever in DNS_CACHE; and a lookup that reads an override
\* whose probe failed before probes it again.
C3_FailedProbeFallsThrough ==
    /\ \A h \in DOMAIN DNS_CACHE : DNS_CACHE[h] \notin OverrideIPs
    /\ \A t \in {"t1"} :
        /\ \A i \in 1..Len(lk[t].ev) :
              lk[t].ev[i] = "probe_fail" =>
                 /\ i = Len(lk[t].ev) => lk[t].pc = "cache"
                 /\ i < Len(lk[t].ev) => lk[t].ev[i+1] \in {"cache_hit", "cache_miss"}
                 /\ Count(SubSeq(lk[t].ev, 1, i), {"cache_hit", "cache_miss", "doh_request"}) = 0
        /\ (Has(lk[t], "probe_fail") /\ Ended(lk[t])) =>
              /\ lk[t].pc # "raised"
              /\ lk[t].dret \in DohIPs \cup {None}
        /\ (lk[t].pc = "cache" /\ lk[t].ip \in OverrideIPs) => Has(lk[t], "probe_fail")
        /\ (Has(lk[t], "custom_hit") /\ lk[t].ip \in OverrideIPs
              /\ <<lk[t].host, lk[t].ip>> \in probeLog) =>
              (lk[t].pc = "probe" \/ Has(lk[t], "probe_ok") \/ Has(lk[t], "probe_fail"))

\* an override whose probe failed earlier, and whose lookup was then answered
\* by DoH and cached, is being probed again
C3_Witness ==
    /\ lk["t1"].pc = "probe"
    /\ <<lk["t1"].host, lk["t1"].ip>> \in probeLog
    /\ lk["t1"].host \in DOMAIN DNS_CACHE

\* C10: only a name with a TARGET_DOMAINS entry as a domain suffix enters
\* doh_lookup; every other name gets the system resolver's answer and
\* touches nothing of the override chain.
C10_OnlyDomainSuffixIntercepted ==
    \A t \in {"t1"} :
        LET suffix == \E d \in TARGET_DOMAINS : HasDomainSuffix(d, lk[t].host)
        IN  /\ Has(lk[t], "doh_lookup") => suffix
            /\ (lk[t].pc = "done" /\ ~suffix) =>
                  /\ lk[t].ret = SystemResult(lk[t].host)
                  /\ lk[t].ev = <<>>

\* C4: a lookup called when an earlier lookup of the name had succeeded by
\* DoH (its answer was cached), and which gets as far as the cache, does a
\* cache hit, returns the address cached at that moment and sends no DoH
\* request.
C4_Inv ==
    \A t \in Threads :
        (lk[t].cachedAtCall /\ Count(lk[t].ev, {"cache_hit", "cache_miss"}) > 0) =>
            /\ Has(lk[t], "cache_hit")
            /\ Count(lk[t].ev, {"cache_miss", "doh_request", "cache_write"}) = 0
            /\ Ended(lk[t]) /\ lk[t].pc # "raised"
            /\ lk[t].dret \in DohIPs

C4_Step ==
    \A t \in Threads :
        (lk[t].pc = "cache" /\ lk[t].cachedAtCall /\ lk'[t] # lk[t]) =>
            /\ lk[t].host \in DOMAIN DNS_CACHE
            /\ lk'[t].pc = "gai_ret"
            /\ lk'[t].dret = DNS_CACHE[lk[t].host]
            /\ DNS_CACHE' = DNS_CACHE

C4_CachedAnswerReused == []C4_Inv /\ [][C4_Step]_vars

\* a lookup made after a DoH success has returned from the cache, while the
\* other thread's own DoH answer for the name is still to be written
C4_Witness ==
    \E t \in Threads, u \in Threads :
        /\ t # u
        /\ lk[t].cachedAtCall /\ lk[t].pc = "done" /\ Has(lk[t], "cache_hit")
        /\ lk[t].ret = InterceptResult(DNS_CACHE[lk[t].host])
        /\ lk[u].pc = "cache_write"


(***************************************************************************)
(*                 Properties of the resolution cache                      *)
(***************************************************************************)

HostsFileIPs == UNION {{f[h] : h \in DOMAIN f} : f \in HostsFileChoices}

C17_Inv ==
    /\ \A h \in DOMAIN DNS_CACHE :
          /\ DNS_CACHE[h] \in DohIPs
          /\ DNS_CACHE[h] \notin OverrideIPs \cup HostsFileIPs \cup {None, ""}
    /\ \A t \in Threads :
          lk[t].pc = "cache_write" =>
             /\ lk[t].ip \in DohIPs
             /\ lk[t].ev[Len(lk[t].ev)] = "doh_request"

C17_Step ==
    DNS_CACHE' # DNS_CACHE =>
        \E t \in Threads :
            /\ lk[t].pc = "cache_write"
            /\ DNS_CACHE' = Put(DNS_CACHE, lk[t].host, lk[t].ip)
            /\ lk'[t].pc = "gai_ret" /\ lk'[t].dret = lk[t].ip

\* C17: every DNS_CACHE entry holds an address a DoH provider answered for
\* that name, and DNS_CACHE changes only in the step that stores the A record
\* a provider has just answered to the storing call: a hosts entry, an
\* override, a probe result and a failed lookup leave it as it is.
C17_CacheOnlyFromDohAnswers == []C17_Inv /\ [][C17_Step]_vars

\* the cache holds a DoH answer for a name while HOSTS_MAP holds an entry for
\* it, an override of it failed its probe earlier, and the latest lookup was
\* answered from HOSTS_MAP
C17_Witness ==
    /\ lk["t1"].pc = "done" /\ Has(lk["t1"], "hosts_hit")
    /\ lk["t1"].host \in DOMAIN DNS_CACHE
    /\ \E ip \in OverrideIPs : <<lk["t1"].host, ip>> \in probeLog


(***************************************************************************)
(*          Properties of doh_lookup under concurrent updates              *)
(***************************************************************************)

\* C18: no call of doh_lookup ends by raising, whatever the handlers'
\* dns_settings updates and the settings reload do to the maps meanwhile.
C18_LookupNeverRaises ==
    \A t \in Threads : lk[t].pc # "raised"

(***************************************************************************)
(*                  Properties of the override probe                       *)
(***************************************************************************)

Probes(r) == Count(r.ev, {"probe_ok", "probe_fail"})

C19_Inv ==
    \A t \in Threads :
        /\ Probes(lk[t]) <= 1
        /\ lk[t].pc = "probe" =>
              /\ Probes(lk[t]) = 0
              /\ lk[t].ip \in OverrideIPs /\ Has(lk[t], "custom_hit")
        /\ (Ended(lk[t]) /\ lk[t].pc # "raised" /\ lk[t].dret \in OverrideIPs) =>
              /\ Has(lk[t], "probe_ok")
              /\ lk[t].dret = lk[t].ip
        /\ (lk[t].pc = "done" /\ \E ip \in OverrideIPs : lk[t].ret = InterceptResult(ip)) =>
              Has(lk[t], "probe_ok")

C19_Step ==
    \A t \in Threads :
        /\ (lk[t].pc = "probe" /\ lk'[t] # lk[t]) =>
              /\ lk'[t].host = lk[t].host /\ lk'[t].ip = lk[t].ip
              /\ \/ lk'[t].pc = "gai_ret" /\ lk'[t].dret = lk[t].ip
                       /\ lk'[t].ev = Append(lk[t].ev, "probe_ok")
                 \/ lk'[t].pc = "cache" /\ lk'[t].ev = Append(lk[t].ev, "probe_fail")
        /\ (lk[t].pc # "probe" /\ lk'[t].pc = "gai_ret" /\ lk[t].pc # "gai_ret") =>
              lk'[t].dret \notin OverrideIPs
        /\ (lk[t].pc = "custom_read" /\ lk'[t] # lk[t] /\ lk'[t].pc # "raised"
               /\ Truthy(lk'[t].ip)) => lk'[t].pc = "probe"

\* C19: a call returns an override address only out of its own probe of that
\* address and name, in the step in which that probe succeeds; a call probes
\* at most once; and every call that reads a non-empty override probes it,
\* whatever earlier or concurrent calls found.
C19_OverrideOnlyAfterOwnProbe == []C19_Inv /\ [][C19_Step]_vars

\* one call has returned an override after its probe succeeded, the override
\* of the name has been replaced since, and the other call is probing the
\* address it read itself
C19_Witness ==
    \E t \in Threads, u \in Threads :
        /\ t # u
        /\ lk[t].pc = "done" /\ Has(lk[t], "probe_ok")
        /\ lk[t].ret = InterceptResult(lk[t].ip)
        /\ lk[t].host \in DOMAIN CUSTOM_IP_MAP /\ CUSTOM_IP_MAP[lk[t].host] # lk[t].ip
        /\ lk[u].pc = "probe" /\ lk[u].host = lk[t].host /\ lk[u].ip = lk[t].ip

(***************************************************************************)
(*                  Properties of the provider loop                        *)
(***************************************************************************)

\* The record the claim names: the first of type A in the answer.
IsFirstA(resp, ip) ==
    /\ ~resp.raised /\ resp.status_code = 200 /\ resp.hasAnswer
    /\ \E i \in 1..Len(resp.Answer) :
          /\ resp.Answer[i] = ARecord(ip)
          /\ \A j \in 1..(i-1) : resp.Answer[j].type # 1

Stored(r) == r.pc = "cache_write" \/ Has(r, "cache_write")

C20_Inv ==
    \A t \in Threads :
        LET r == lk[t] IN
        /\ Len(r.asked) <= Len(doh_providers)
        /\ \A i \in 1..Len(r.asked) : r.asked[i] = doh_providers[i]
        /\ r.asked # <<>> => Has(r, "cache_miss")
        /\ r.pc = "doh" => Has(r, "cache_miss") /\ Len(r.asked) = r.k - 1 /\ ~Stored(r)
        /\ Stored(r) => r.asked # <<>> /\ IsFirstA(r.resp, r.ip)
        /\ (Has(r, "cache_miss") /\ Ended(r)) =>
              /\ r.pc # "raised"
              /\ \/ Has(r, "cache_write") /\ r.dret = r.ip
                 \/ ~Stored(r) /\ r.asked = doh_providers /\ r.dret = None
        /\ (Has(r, "cache_miss") /\ r.pc = "done") =>
              r.ret = IF Has(r, "cache_write") THEN InterceptResult(r.ip)
                                               ELSE SystemResult(r.host)

C20_Step ==
    \A t \in Threads :
        LET r == lk[t] IN
        /\ (r.pc = "cache" /\ lk'[t].pc = "doh") =>
              /\ r.host \notin DOMAIN DNS_CACHE
              /\ lk'[t].k = 1 /\ lk'[t].asked = <<>>
        /\ (r.pc = "doh" /\ lk'[t] # r) =>
              /\ lk'[t].asked = Append(r.asked, doh_providers[r.k])
              /\ DNS_CACHE' = DNS_CACHE
              /\ \/ lk'[t].pc = "cache_write"
                 \/ r.k < Len(doh_providers) /\ lk'[t].pc = "doh" /\ lk'[t].k = r.k + 1
                 \/ r.k = Len(doh_providers) /\ lk'[t].pc = "gai_ret" /\ lk'[t].dret = None
        /\ (r.pc = "cache_write" /\ lk'[t] # r) =>
              /\ DNS_CACHE' = Put(DNS_CACHE, r.host, r.ip)
              /\ lk'[t].pc = "gai_ret" /\ lk'[t].dret = r.ip
              /\ lk'[t].asked = r.asked

\* C20: after a cache miss the providers asked by a call are a prefix of
\* doh_providers, one more being asked only while none has answered; the
\* address taken is the first A record of the first answer that has one, it
\* is stored in DNS_CACHE and returned; when the third provider fails too the
\* call returns None, no step of the loop having changed DNS_CACHE, and
\* patched_getaddrinfo returns the system resolver's result.
C20_ProvidersInOrder == []C20_Inv /\ [][C20_Step]_vars

\* one call asked all three providers in vain and got the system resolver's
\* result; the other was answered by the third provider, took the first A
\* record behind a CNAME record, and the cache holds it
C20_Witness ==
    \E t \in Threads, u \in Threads :
        /\ lk[t].pc = "done" /\ lk[t].asked = doh_providers /\ ~Has(lk[t], "cache_write")
        /\ lk[t].ret = SystemResult(lk[t].host)
        /\ lk[u].pc = "done" /\ lk[u].asked = doh_providers /\ Has(lk[u], "cache_write")
        /\ lk[u].resp.Answer[1] = CnameRecord
        /\ lk[u].ret = InterceptResult("30.0.0.1")
        /\ DNS_CACHE[lk[u].host] = "30.0.0.1"

(***************************************************************************)
(*                Properties of the initial-letter query                   *)
(***************************************************************************)

\* The pools of the Cartesian product as the claim describes them: a table
\* character contributes its initials, an absent one itself uppercased if
\* alphanumeric, and is dropped otherwise.
RECURSIVE StatedPools(_)
StatedPools(txt) ==
    IF txt = <<>> THEN <<>>
    ELSE LET c == Head(txt)
         IN  (IF c \in DOMAIN CHAR_MAP THEN <<EntryInitials(CHAR_MAP[c], <<>>)>>
              ELSE IF IsAlnum(c) THEN << <<Upper(c)>> >> ELSE <<>>)
             \o StatedPools(Tail(txt))

\* The same, with a table character that has no initial treated as absent.
RECURSIVE AmendedPools(_)
AmendedPools(txt) ==
    IF txt = <<>> THEN <<>>
    ELSE LET c == Head(txt)
             absent == c \notin DOMAIN CHAR_MAP
                       \/ \A i \in 1..Len(CHAR_MAP[c]) : CHAR_MAP[c][i] = <<>>
         IN  (IF ~absent THEN <<EntryInitials(CHAR_MAP[c], <<>>)>>
              ELSE IF IsAlnum(c) THEN << <<Upper(c)>> >> ELSE <<>>)
             \o AmendedPools(Tail(txt))

RECURSIVE Weight(_, _)
Weight(pools, i) == IF i >= Len(pools) THEN 1 ELSE Len(pools[i+1]) * Weight(pools, i + 1)

\* The j-th tuple (from 0) of the product in positional order: the last
\* position varies fastest.
TupleAt(pools, j) ==
    [i \in 1..Len(pools) |-> pools[i][((j \div Weight(pools, i)) % Len(pools[i])) + 1]]

RECURSIVE LeftConcat(_)
LeftConcat(p) == IF p = <<>> THEN "" ELSE LeftConcat(SubSeq(p, 1, Len(p) - 1)) \o p[Len(p)]

Candidates(pools) ==
    LET n == Weight(pools, 0)
    IN  [j \in 1..n |-> LeftConcat(TupleAt(pools, j - 1))]

\* seq without the elements that occurred earlier in it
FirstSeen(seq) ==
    LET keep == {i \in 1..Len(seq) : \A m \in 1..(i-1) : seq[m] # seq[i]}
    IN  [k \in 1..Cardinality(keep) |->
            seq[CHOOSE i \in keep : Cardinality({m \in keep : m <= i}) = k]]

RECURSIVE Joined(_)
Joined(seq) ==
    IF seq = <<>> THEN ""
    ELSE IF Len(seq) = 1 THEN seq[1]
    ELSE Joined(SubSeq(seq, 1, Len(seq) - 1)) \o "|" \o seq[Len(seq)]

Stated(pools) == Joined(FirstSeen(Candidates(pools)))

\* C6 as stated: the result is the '|'-join of the de-duplicated products of
\* the characters' initial sets, a table character always contributing the
\* initials of its entry.
C6_AsStated == result # None => result = Stated(StatedPools(text))

\* C6 amended: the same with a table character whose entry yields no initial
\* treated like an absent character (itself uppercased if alphanumeric, else
\* dropped); empty and all-dropped input give "", and [Z,C] then [Y] gives
\* "ZY|CY".
C6_PinyinPermutations ==
    result # None =>
        /\ result = Stated(AmendedPools(text))
        /\ AmendedPools(text) = <<>> => result = ""
        /\ AmendedPools(text) = << <<"Z", "C">>, <<"Y">> >> => result = "ZY|CY"

\* [Z,C] then a dropped character then [Y]
C6_Witness ==
    /\ text = <<"U+91CD", "-", "U+4E00">>
    /\ "-" \in DOMAIN CHAR_MAP
    /\ result = "ZY|CY"


(***************************************************************************)
(*                Properties of the dns_settings update                    *)
(***************************************************************************)

C5_Step ==
    dnsTick' # dnsTick =>
        /\ dnsLast' = dnsLast => CUSTOM_IP_MAP' = CUSTOM_IP_MAP
        /\ \A k \in DOMAIN dnsLast' :
              dnsLast'[k] = "" =>
                 /\ k \notin DOMAIN CUSTOM_IP_MAP'
                 /\ (k \notin DOMAIN CUSTOM_IP_MAP /\ DOMAIN dnsLast' = {k})
                       => CUSTOM_IP_MAP' = CUSTOM_IP_MAP

\* C5: applying the dns_settings object that was applied last once more
\* leaves CUSTOM_IP_MAP as it is; an update mapping k to "" leaves the map
\* without k, and changes nothing when k was absent.
C5_UpdateIdempotent == [][C5_Step]_vars

\* an override that was set has been removed by an update with an empty value
C5_Witness ==
    /\ "api.tmdb.org" \in DOMAIN dnsLast
    /\ dnsLast["api.tmdb.org"] = ""
    /\ "api.tmdb.org" \notin DOMAIN CUSTOM_IP_MAP
    /\ "webservice.fanart.tv" \in DOMAIN CUSTOM_IP_MAP

(***************************************************************************)
(*                 Properties of the connection handler                    *)
(***************************************************************************)

\* The request of handler h is a batch: a `requests` member or a bare array.
IsBatch(h) ==
    h.payload.type = "list" \/ (h.payload.type = "dict" /\ "requests" \in h.payload.keys)

Sent(h) == "sendall" \in h.ev

\* r is what execute_request gives for the fetch spec.
IsOutcomeOf(r, spec) ==
    IF Truthy(spec.url) THEN r \in Outcomes(spec.url) ELSE r = NoUrl

\* C1: the response to a batch of N fetch specs (a `requests` member or a
\* bare array, N >= 0) is an array of exactly N results and its i-th element
\* is the outcome of the i-th spec, in whatever order the fetches complete.
C1_BatchResponseInRequestOrder ==
    \A c \in Conns :
        LET h == conn[c]
            N == Len(h.payload.requests)
        IN  (h.pc = "done" /\ IsBatch(h) /\ Sent(h)) =>
                /\ DOMAIN h.response = {"array"}
                /\ Len(h.response.array) = N
                /\ \A i \in 1..N :
                      /\ IsOutcomeOf(h.response.array[i], h.payload.requests[i])
                      /\ N # 1 => h.response.array[i] = h.futs[i].result

\* A batch of two different fetches answered after the second fetch
\* completed first, the first one failing.
C1_Witness ==
    LET h == conn["c1"]
    IN  /\ h.pc = "done" /\ Sent(h) /\ IsBatch(h)
        /\ h.completed = <<2, 1>>
        /\ h.response = ArrayResponse(<<Failed(U1), Fetched(U2)>>)

\* The request of handler h is one fetch spec without a usable url.
SingleNoUrl(h) ==
    /\ h.pc \notin {"closed", "recv", "classify"}
    /\ Len(h.requests_list) = 1
    /\ ~Truthy(h.requests_list[1].url)

C9_Inv ==
    \A c \in Conns :
        LET h == conn[c]
        IN  SingleNoUrl(h) =>
               /\ h.ev \cap {"get_thread_pool", "get_session", "session.get"} = {}
               /\ h.executor = NoPool /\ h.futs = <<>>
               /\ h.pc = "done" =>
                     /\ Sent(h)
                     /\ h.response = IF IsBatch(h) THEN ArrayResponse(<<NoUrl>>)
                                                   ELSE ObjectResponse(NoUrl)

C9_Step ==
    \A c \in Conns :
        (SingleNoUrl(conn[c]) /\ conn[c].pc # "done" /\ conn'[c] # conn[c]) =>
            UNCHANGED <<THREAD_POOL, LAST_POOL_USE, poolCount, sessions, work_queue>>

\* C9: a request of one fetch spec whose url is missing or empty is answered
\* {"error": "No URL provided"}, and handling it neither creates the worker
\* pool nor updates its last-use time, creates no session and makes no
\* network request.
C9_NoUrlTouchesNothing == []C9_Inv /\ [][C9_Step]_vars

\* The single object {} (no url member) answered while the other connection
\* has the pool and a session in use.
C9_Witness ==
    /\ conn["c1"].pc = "done" /\ conn["c1"].payload.type = "dict"
    /\ conn["c1"].payload.keys = {}
    /\ conn["c1"].response = ObjectResponse(NoUrl)
    /\ THREAD_POOL # NoPool /\ sessions # EmptyMap

(***************************************************************************)
(*                    Properties of the accept loop                        *)
(***************************************************************************)

\* start_server is in its accept loop.
Listening == spc \in {"select", "pool_check"}

IdleTooLong == Listening /\ now - last_activity > IDLE_TIMEOUT

\* C7: when the daemon is listening and no connection was accepted for more
\* than the idle threshold, the accept loop terminates (at its next round,
\* unless that round accepts a connection), no later than one observation of
\* the clock after the threshold; once start_server has ended the published
\* port property is cleared.
C7_IdleDaemonStops ==
    /\ IdleTooLong ~> (spc = "stopped" \/ (Listening /\ ~IdleExpired))
    /\ [](Listening => now - last_activity <= IDLE_TIMEOUT + TickLen)
    /\ [](spc \in {"drain", "stopped"} => portProperty = "")

\* The daemon listened, nothing was accepted for more than IDLE_TIMEOUT, no
\* abort was requested, and start_server has ended.
C7_Witness ==
    /\ spc = "stopped" /\ ~abort /\ boundPort # ""
    /\ now - last_activity > IDLE_TIMEOUT
    /\ portProperty = ""

\* The batch of handler h has all its results in the response.
Completed(h) ==
    /\ h.pc = "done" /\ Sent(h) /\ IsBatch(h)
    /\ Len(h.response.array) = Len(h.requests_list)

C8_Step ==
    \A c \in DaemonConns :
        (conn[c].pc = "get_pool" /\ conn'[c].pc = "submit" /\ THREAD_POOL = NoPool) =>
            /\ THREAD_POOL' # NoPool
            /\ THREAD_POOL' \notin poolShutdown'
            /\ THREAD_POOL' > poolCount
            /\ conn'[c].executor = THREAD_POOL'

\* C8: while the accept loop runs, a pool unused for more than the pool
\* timeout does not stay: the reference becomes null (or a batch uses the
\* pool again first); get_thread_pool called while the reference is null
\* creates a new pool, and the batch that obtained it is answered with all
\* its results as long as the loop keeps running.
C8_IdlePoolRecreated ==
    /\ (Listening /\ PoolExpired) ~> ~PoolExpired
    /\ [][C8_Step]_vars
    /\ \A c \in DaemonConns :
          (conn[c].pc = "submit" /\ conn[c].futs = <<>>)
              ~> (Completed(conn[c]) \/ ~Listening)

\* The idle check has shut the first pool down, the loop is still running,
\* and a later batch was answered in full through the second pool.
C8_Witness ==
    /\ Listening /\ 1 \in poolShutdown
    /\ conn["c1"].executor = 2
    /\ Completed(conn["c1"]) /\ Len(conn["c1"].response.array) = 2

(***************************************************************************)
(*                  Properties of the payload dispatch                     *)
(***************************************************************************)

\* Handler h has chosen the protocol of its payload.
Classified(h) == h.pc \notin {"closed", "recv", "classify"}

HasKey(h, k) == h.payload.type = "dict" /\ k \in h.payload.keys

\* Handler h answered a pinyin query and did nothing else.
AnsweredPinyin(h) ==
    /\ h.pc = "done" /\ h.ev = {"sendall"}
    /\ h.response = PinyinResponse(h.payload.pinyin)
    /\ h.requests_list = <<>> /\ h.futs = <<>> /\ h.results = <<>>

\* C11: the payload is classified in the order requests-object,
\* pinyin-object, array, bare object: an object with a `requests` member is
\* a batch fetch even when it also has a `pinyin` member, an object with
\* `pinyin` and no `requests` is a pinyin query, an array is a legacy batch
\* and any other object is a legacy single fetch of the object itself.
C11_DispatchOrder ==
    \A c \in Conns :
        LET h == conn[c]
        IN  Classified(h) =>
              /\ HasKey(h, "requests") =>
                    /\ h.requests_list = h.payload.requests
                    /\ ~AnsweredPinyin(h)
                    /\ Sent(h) => DOMAIN h.response = {"array"}
              /\ (HasKey(h, "pinyin") /\ ~HasKey(h, "requests")) => AnsweredPinyin(h)
              /\ h.payload.type = "list" =>
                    /\ h.requests_list = h.payload.requests
                    /\ ~AnsweredPinyin(h)
              /\ (h.payload.type = "dict" /\ ~HasKey(h, "pinyin") /\ ~HasKey(h, "requests")) =>
                    /\ h.requests_list = <<FetchSpec(h.payload.url)>>
                    /\ ~AnsweredPinyin(h)

\* An object with both members was answered with the array of its fetch
\* result.
C11_Witness ==
    /\ HasKey(conn["c1"], "requests") /\ HasKey(conn["c1"], "pinyin")
    /\ conn["c1"].pc = "done"
    /\ conn["c1"].response = ArrayResponse(<<Fetched(U1)>>)

\* r is a result of execute_request: {status, text, json} or {error}.
IsResult(r) == DOMAIN r \in {{"error"}, {"status", "text"}}

\* The payload of h is a legacy bare object: no `requests`, no `pinyin`.
LegacySingle(h) ==
    h.payload.type = "dict" /\ ~HasKey(h, "requests") /\ ~HasKey(h, "pinyin")

\* C12: the response is an array of per-item results exactly when the payload
\* is a bare array or an object with a `requests` member (also when it holds
\* one spec), and one unwrapped result (what execute_request returned for
\* the payload) exactly when the payload is a legacy bare object without
\* `requests` and `pinyin`.
C12_ResponseShape ==
    \A c \in Conns :
        LET h == conn[c]
        IN  Sent(h) =>
              /\ IsBatch(h) <=>
                    /\ DOMAIN h.response = {"array"}
                    /\ Len(h.response.array) = Len(h.payload.requests)
                    /\ \A i \in 1..Len(h.response.array) : IsResult(h.response.array[i])
              /\ LegacySingle(h) <=>
                    /\ DOMAIN h.response = {"object"}
                    /\ IsResult(h.response.object)
                    /\ h.results = <<h.response.object>>

\* A `requests` object holding one spec was answered with a one-element
\* array while a legacy bare object was answered with its bare result.
C12_Witness ==
    /\ HasKey(conn["c1"], "requests") /\ conn["c1"].response = ArrayResponse(<<Failed(U1)>>)
    /\ LegacySingle(conn["c2"]) /\ conn["c2"].response = ObjectResponse(Fetched(U1))

\* C13: a handler whose connection delivered a JSON request document writes
\* exactly one response document and then closes the connection: when the
\* handler has ended (the connection is closed), its response was written.
C13_ExactlyOneResponse ==
    \A c \in Conns :
        (conn[c].pc = "done" /\ conn[c].payload.type # "none") => Sent(conn[c])

(***************************************************************************)
(*                     Properties of execute_request                       *)
(***************************************************************************)

\* Handler h ended by an exception that is no fetch failure.
Raised(h) == h.ev \cap {"KeyError", "RuntimeError"} # {}

\* C14: a failed fetch becomes the {"error": msg} result of its own spec and
\* nothing is raised: every result is {status, text, json} or {error} and is
\* the outcome of the spec in its slot, whatever the other fetches did, and
\* a handler that read its document and ends without another exception has
\* sent the response with these results.
C14_FetchFailureIsData ==
    \A c \in Conns :
        LET h == conn[c]
        IN  /\ \A i \in 1..Len(h.futs) :
                  h.futs[i].st = "done" =>
                     /\ IsResult(h.futs[i].result)
                     /\ IsOutcomeOf(h.futs[i].result, h.requests_list[i])
            /\ \A i \in 1..Len(h.results) :
                  /\ IsResult(h.results[i])
                  /\ IsOutcomeOf(h.results[i], h.requests_list[i])
            /\ (h.pc = "done" /\ h.payload.type # "none" /\ ~Raised(h)) => Sent(h)
            /\ (Sent(h) /\ Protocol(h.payload) # "V3") =>
                  h.response = ResponseOf(h.payload, h.results)

\* The second fetch of a batch failed and the first succeeded; a legacy
\* single fetch failed: both responses were sent.
C14_Witness ==
    /\ conn["c1"].response = ArrayResponse(<<Fetched(U2), Failed(U1)>>)
    /\ conn["c2"].response = ObjectResponse(Failed(U1))

(***************************************************************************)
(*               Properties of dns_settings within a request               *)
(***************************************************************************)

\* A fetch of handler h has started.
FetchStarted(h) ==
    \/ h.ev \cap {"get_session", "session.get"} # {}
    \/ h.pc \in {"single_get", "respond"}
    \/ \E i \in 1..Len(h.futs) : h.futs[i].st # "queued"

\* Another connection's request names key k with another value than v.
Conflict(c, k, v) ==
    \E d \in Conns \ {c} :
        /\ HasKey(conn[d], "dns_settings")
        /\ \E n \in 1..Len(conn[d].payload.dns_settings) :
              /\ conn[d].payload.dns_settings[n][1] = k
              /\ conn[d].payload.dns_settings[n][2] # v

Returned == UNION {conn[c].got : c \in Conns}

C16_Inv ==
    /\ \A x \in Returned : x[1] \in DOMAIN sessions /\ sessions[x[1]] = x
    /\ \A x \in Returned, y \in Returned : x[1] = y[1] => x = y

C16_Step == \A k \in DOMAIN sessions : k \in DOMAIN sessions' /\ sessions'[k] = sessions[k]

\* C16: in every interleaving of get_session calls one client at most is
\* created per domain: all calls for urls of one domain return the same
\* client, the one in the table, and a table entry is never replaced or
\* removed.
C16_OneClientPerDomain == []C16_Inv /\ [][C16_Step]_vars

\* Both connections fetched from api.tmdb.org and from webservice.fanart.tv;
\* the first connection's calls created neither client.
C16_Witness ==
    /\ DOMAIN sessions = {"api.tmdb.org", "webservice.fanart.tv"}
    /\ conn["c1"].got = {sessions["api.tmdb.org"], sessions["webservice.fanart.tv"]}
    /\ conn["c2"].got = conn["c1"].got
    /\ \A x \in conn["c1"].got : x[2] = "c2"

(***************************************************************************)
(*                    Properties of the receive loop                       *)
(***************************************************************************)

\* The handler ended without a document: the peer closed first.
ClosedEarly(h) == h.pc = "done" /\ h.payload.type = "none"

C21_Inv ==
    \A c \in Conns :
        ClosedEarly(conn[c]) =>
            /\ conn[c].response = NoResponse
            /\ conn[c].ev \subseteq {"JSONDecodeError"}
            /\ conn[c].executor = NoPool /\ conn[c].futs = <<>> /\ conn[c].got = {}

C21_Step ==
    \A c \in Conns :
        (conn[c].pc = "recv" /\ ClosedEarly(conn'[c])) =>
            /\ CUSTOM_IP_MAP' = CUSTOM_IP_MAP
            /\ sessions' = sessions
            /\ THREAD_POOL' = THREAD_POOL
            /\ LAST_POOL_USE' = LAST_POOL_USE

\* C21: a handler whose peer closed before a complete document (or sent
\* nothing) ends without a response, having started no fetch and taken no
\* pool or session, and its ending step leaves CUSTOM_IP_MAP, the session
\* table, THREAD_POOL and LAST_POOL_USE as they were.
C21_EarlyCloseTouchesNothing == []C21_Inv /\ [][C21_Step]_vars

\* one peer closed after an incomplete document while the other
\* connection's batch, with its dns_settings applied, is with the pool
C21_Witness ==
    /\ ClosedEarly(conn["c1"]) /\ "JSONDecodeError" \in conn["c1"].ev
    /\ conn["c2"].pc = "collect" /\ THREAD_POOL # NoPool
    /\ DOMAIN sessions # {}

(***************************************************************************)
(*                    Properties of the pinyin query                       *)
(***************************************************************************)

IsPinyinQuery(h) == HasKey(h, "pinyin") /\ ~HasKey(h, "requests")

C22_Inv ==
    \A c \in Conns :
        LET h == conn[c]
        IN  (IsPinyinQuery(h) /\ h.pc = "done") =>
              /\ h.ev = {"sendall"}
              /\ DOMAIN h.response = {"object"}
              /\ DOMAIN h.response.object \in {{"result"}, {"error"}}
              /\ "result" \in DOMAIN h.response.object =>
                    h.response.object.result = get_pinyin_permutations(h.payload.pinyin)
              /\ h.executor = NoPool /\ h.futs = <<>> /\ h.results = <<>> /\ h.got = {}

C22_Step ==
    \A c \in Conns :
        (IsPinyinQuery(conn[c]) /\ conn'[c] # conn[c]
           /\ conn[c].pc \in {"recv", "classify"}) =>
            /\ conn'[c].pc \in {"classify", "done"}
            /\ CUSTOM_IP_MAP' = CUSTOM_IP_MAP /\ DNS_CACHE' = DNS_CACHE
            /\ sessions' = sessions
            /\ THREAD_POOL' = THREAD_POOL /\ LAST_POOL_USE' = LAST_POOL_USE
            /\ work_queue' = work_queue

\* C22: every step of a handler serving a pinyin query, with or without a
\* dns_settings member, leaves CUSTOM_IP_MAP, DNS_CACHE, the session table,
\* THREAD_POOL and LAST_POOL_USE as they were and queues no fetch; the
\* handler ends having written one object with the member `result` (the
\* permutations of the text) or `error`, and nothing else.
C22_PinyinQueryTouchesNothing == []C22_Inv /\ [][C22_Step]_vars

\* a pinyin query that carried an override for api.tmdb.org was answered
\* with its result while the map held another address for that name and
\* the other connection's batch was with the pool
C22_Witness ==
    /\ IsPinyinQuery(conn["c1"]) /\ HasKey(conn["c1"], "dns_settings")
    /\ conn["c1"].pc = "done" /\ "result" \in DOMAIN conn["c1"].response.object
    /\ "api.tmdb.org" \in DOMAIN CUSTOM_IP_MAP
    /\ CUSTOM_IP_MAP["api.tmdb.org"] # conn["c1"].payload.dns_settings[1][2]
    /\ conn["c2"].pc = "collect"

(***************************************************************************)
(*              Properties of the choice of the executing thread           *)
(***************************************************************************)

CalledPool(h) == "get_thread_pool" \in h.ev

\* Handler h has got as far as `if len(requests_list) == 1` (423).
Dispatched(h) ==
    /\ ~IsPinyinQuery(h)
    /\ h.pc \in {"single", "single_get", "get_pool", "submit", "collect", "respond"} \/ Sent(h)

OnOwnThread(h) == h.executor = NoPool /\ h.futs = <<>> /\ ~CalledPool(h)

\* C23 as stated: get_thread_pool is called only for two or more fetch
\* specs, and the pool exists only if some request carried two or more.
C23_AsStated ==
    /\ \A c \in Conns : CalledPool(conn[c]) => Len(conn[c].requests_list) >= 2
    /\ poolCount > 0 => \E c \in Conns : Len(conn[c].requests_list) >= 2

\* C23 (amended): a handler that reaches the execution step calls
\* get_thread_pool, which creates the pool when there is none, exactly when
\* the number of fetch specs is not one (none, or two and more); a request
\* of exactly one spec is executed on the handler's own thread and takes no
\* executor; and a pool exists only if some handler with a number of specs
\* other than one called get_thread_pool.
C23_PoolUnlessOneSpec ==
    /\ \A c \in Conns :
          LET h == conn[c]
              n == Len(h.requests_list)
          IN  /\ CalledPool(h) => Dispatched(h) /\ n # 1 /\ h.executor # NoPool
              /\ (Dispatched(h) /\ n = 1) => OnOwnThread(h)
              /\ (Dispatched(h) /\ n # 1) =>
                    (h.pc = "get_pool" \/ CalledPool(h))
              /\ h.pc \in {"single", "single_get"} => n = 1
              /\ h.pc \in {"get_pool", "submit", "collect"} => n # 1
              /\ h.executor # NoPool => h.executor \in 1..poolCount
    /\ poolCount > 0 =>
          \E c \in Conns : CalledPool(conn[c]) /\ Len(conn[c].requests_list) # 1
    /\ poolCount = 0 => THREAD_POOL = NoPool

\* an empty batch made the pool while the other connection's single fetch
\* ran on its handler's thread
C23_Witness ==
    /\ conn["c1"].pc = "done" /\ Sent(conn["c1"]) /\ IsBatch(conn["c1"])
    /\ conn["c1"].requests_list = <<>> /\ conn["c1"].executor = THREAD_POOL
    /\ THREAD_POOL # NoPool
    /\ conn["c2"].pc = "done" /\ Len(conn["c2"].requests_list) = 1
    /\ conn["c2"].response = ObjectResponse(Fetched(U1)) /\ OnOwnThread(conn["c2"])

(***************************************************************************)
(*                 Properties of the pool's idle check                     *)
(***************************************************************************)

C24_Inv == THREAD_POOL # NoPool => THREAD_POOL \notin poolShutdown

C24_Step ==
    /\ (spc = "pool_check" /\ spc' # spc) =>
          IF THREAD_POOL # NoPool /\ now - LAST_POOL_USE > POOL_TIMEOUT
          THEN poolShutdown' = poolShutdown \cup {THREAD_POOL} /\ THREAD_POOL' = NoPool
          ELSE poolShutdown' = poolShutdown /\ THREAD_POOL' = THREAD_POOL
    /\ (THREAD_POOL # NoPool /\ THREAD_POOL' # THREAD_POOL) =>
          THREAD_POOL' = NoPool /\ THREAD_POOL \in poolShutdown'
    /\ poolShutdown' # poolShutdown =>
          poolShutdown' = poolShutdown \cup {THREAD_POOL} /\ THREAD_POOL' = NoPool
    /\ \A c \in DaemonConns :
          (conn[c].pc = "get_pool" /\ conn'[c].pc # "get_pool") =>
              /\ conn'[c].executor # NoPool
              /\ conn'[c].executor \notin poolShutdown'
              /\ conn'[c].executor = THREAD_POOL'
              /\ LAST_POOL_USE' = now

\* C24: the idle check shuts the pool down exactly when the reference is
\* set and more than POOL_TIMEOUT has passed since the last get_thread_pool
\* call; a shutdown and the clearing of the reference are one step, so the
\* reference never names a pool that was shut down, and the pool
\* get_thread_pool returns has not been shut down when it is returned.
C24_IdleShutdownAtomic == []C24_Inv /\ [][C24_Step]_vars

\* the idle check has shut the first pool down and a later batch has just
\* been handed the second one, with the loop still running
C24_Witness ==
    /\ Listening /\ poolShutdown = {1} /\ THREAD_POOL = 2
    /\ conn["c1"].pc = "submit" /\ conn["c1"].futs = <<>> /\ conn["c1"].executor = 2
    /\ LAST_POOL_USE = now /\ now > POOL_TIMEOUT

(***************************************************************************)
(*                   Properties of the accept loop's exits                 *)
(***************************************************************************)

C25_Step ==
    /\ (Listening /\ ~Listening') =>
          /\ spc = "select"
          /\ \/ abort /\ spc' = "finally"
             \/ spc' = "except"
             \/ /\ spc' = "finally"
                /\ now - last_activity > IDLE_TIMEOUT
                /\ conn' = conn /\ last_activity' = last_activity
    /\ \A c \in DaemonConns :
          (conn'[c].pc = "recv" /\ conn[c].pc # "recv") =>
              /\ Listening /\ Listening'
              /\ last_activity' = now
              /\ \A d \in DaemonConns \ {c} : conn'[d] = conn[d]
    /\ last_activity' # last_activity =>
          \/ spc = "publish"
          \/ spc' = "except"
          \/ \E c \in DaemonConns : conn'[c].pc = "recv" /\ conn[c].pc # "recv"

\* C25: the loop is left from its select only: on a host abort request, by
\* an exception, or on an iteration whose select timed out (no handler is
\* started, the idle timestamp stays) with more than IDLE_TIMEOUT elapsed
\* since the timestamp; the timestamp is set when the loop starts and at
\* every accepted connection, each of which starts one handler.
C25_LoopLeftOnlyWhenIdle == [][C25_Step]_vars

\* a connection was accepted after the start, its request answered, and the
\* loop has just been left more than IDLE_TIMEOUT after that connection
C25_Witness ==
    /\ spc = "finally" /\ ~abort
    /\ last_activity > 0 /\ now - last_activity > IDLE_TIMEOUT
    /\ conn["c1"].pc = "done" /\ Sent(conn["c1"])

\* start_server is past server.close() and clearProperty (499-501).
SocketClosed == spc \in {"drain", "stopped"}

C26_Inv ==
    /\ SocketClosed => portProperty = ""
    /\ spc = "stopped" => 1..poolCount \ {THREAD_POOL} \subseteq poolShutdown

C26_Step ==
    /\ (spc # "stopped" /\ spc' = "stopped") =>
          /\ spc = "drain" /\ portProperty' = ""
          /\ THREAD_POOL' = NoPool
          /\ poolShutdown' = 1..poolCount
          /\ conn' = conn /\ work_queue' = work_queue
    /\ spc \in {"finally", "drain", "stopped"} =>
          /\ spc' \in {"finally", "drain", "stopped"}
          /\ \A c \in DaemonConns : conn'[c].pc = "recv" => conn[c].pc = "recv"
    /\ (spc \in {"bind", "bind_random", "select", "except"} /\ ~Listening' /\ spc' # spc) =>
          spc' \in {"publish", "bind_random", "except", "finally"}

\* C26: start_server returns only through its finally clause, whichever way
\* the loop or the binds ended: at the return the listening socket is closed
\* (nothing is accepted any more), the port property is empty, THREAD_POOL
\* is null and every pool ever created has been shut down, in a step that
\* waits for no task.
C26_ExitCleansUp == []C26_Inv /\ [][C26_Step]_vars

\* start_server has returned after an accept failure while a fetch of the
\* last batch was still running on the pool it shut down
C26_Witness ==
    /\ spc = "stopped" /\ ~abort /\ boundPort # "" /\ now - last_activity <= IDLE_TIMEOUT
    /\ THREAD_POOL = NoPool /\ poolShutdown # {}
    /\ \E i \in 1..Len(conn["c1"].futs) : conn["c1"].futs[i].st = "running"

(***************************************************************************)
(*                  Properties of binding and publishing                   *)
(***************************************************************************)

C27_Inv ==
    /\ boundPort \in {"", DEFAULT_PORT, EphemeralPort}
    /\ portProperty # "" => portProperty = boundPort /\ boundPort # ""
    /\ Listening => portProperty = boundPort /\ boundPort # ""
    /\ spc = "bind" => boundPort = "" /\ portProperty = ""
    /\ spc = "bind_random" => boundPort = "" /\ portProperty = ""
    /\ spc = "publish" => boundPort # "" /\ portProperty = ""
    /\ boundPort = "" => portProperty = "" /\ ~Listening /\ spc # "publish"

C27_Step ==
    /\ (spc = "bind" /\ spc' # spc) =>
          \/ spc' = "publish" /\ boundPort' = DEFAULT_PORT
          \/ spc' = "bind_random" /\ boundPort' = ""
    /\ spc' = "bind_random" => spc \in {"bind", "bind_random"}
    /\ (spc = "bind_random" /\ spc' # spc) =>
          \/ spc' = "publish" /\ boundPort' = EphemeralPort
          \/ spc' \notin {"publish", "select", "pool_check"} /\ boundPort' = ""
    /\ (boundPort' # boundPort) => spc \in {"bind", "bind_random"} /\ boundPort = ""
    /\ (portProperty' # portProperty /\ portProperty' # "") =>
          spc = "publish" /\ portProperty' = boundPort /\ spc' = "select"
    /\ (Listening' /\ ~Listening) => spc = "publish" /\ portProperty' = boundPort
    /\ (boundPort = "" /\ spc \notin {"bind", "bind_random"}) =>
          boundPort' = "" /\ portProperty' = "" /\ ~Listening'

\* C27: the ephemeral bind is tried only after the bind to DEFAULT_PORT
\* failed; the port property is set only in the step that follows a
\* successful bind and listen, and to the port the socket is bound to; the
\* accept loop is entered only by that step; and when both binds failed no
\* port is published and the loop is not entered.
C27_PublishedPortIsBoundPort == []C27_Inv /\ [][C27_Step]_vars

\* the default port was in use, and a client of the daemon listening on the
\* published ephemeral port has its answer
C27_Witness ==
    /\ Listening /\ boundPort = EphemeralPort /\ portProperty = EphemeralPort
    /\ conn["c1"].pc = "done" /\ Sent(conn["c1"])

(***************************************************************************)
(*                    Properties of an accept failure                      *)
(***************************************************************************)

\* C28: a failure of accept (or of the start of the handler) does not end
\* the daemon: once the port is published, start_server leaves its loop
\* only on a host abort request or after more than IDLE_TIMEOUT without a
\* connection.
C28_AcceptFailureKeepsListening ==
    (boundPort # "" /\ portProperty = "" /\ spc \in {"drain", "stopped"}
       /\ last_activity > 0) =>
        (abort \/ now - last_activity > IDLE_TIMEOUT)

(***************************************************************************)
(*              Properties of the session table's lifetime                 *)
(***************************************************************************)

InTable(x) == x[1] \in DOMAIN sessions /\ sessions[x[1]] = x

\* The step in which the idle check shuts the pool down.
IdleCheckFires == spc = "pool_check" /\ poolShutdown' # poolShutdown

\* C29 as stated: when the idle check fires, the clients created before it
\* leave the session table.
C29_AsStated ==
    [][IdleCheckFires =>
          \A k \in DOMAIN sessions : k \notin DOMAIN sessions' \/ sessions'[k] # sessions[k]]_vars

C29_Inv ==
    \A c \in DaemonConns : \A x \in conn[c].got : InTable(x)

C29_Step ==
    /\ \A k \in DOMAIN sessions : k \in DOMAIN sessions' /\ sessions'[k] = sessions[k]
    /\ spc' # spc => sessions' = sessions
    /\ IdleCheckFires => sessions' = sessions

\* C29 (amended): nothing tears session table entries down: no step of
\* start_server, its idle check included, changes the table, an entry once
\* made stays as it is, and after the idle check has shut the pool down the
\* table still holds the clients created before it.
C29_SessionsOutliveIdleCheck == []C29_Inv /\ [][C29_Step]_vars

\* the idle check has shut down the pool of an earlier batch, the loop is
\* running, and the table holds both clients that batch created, one of
\* which served the single fetch that came later
C29_Witness ==
    /\ Listening /\ THREAD_POOL = NoPool /\ poolShutdown = {1}
    /\ DOMAIN sessions = {"api.tmdb.org", "webservice.fanart.tv"}
    /\ conn["c1"].pc = "done" /\ conn["c1"].executor = NoPool
    /\ conn["c1"].got # {} /\ \A x \in conn["c1"].got : InTable(x) /\ x[3] # 0

(***************************************************************************)
(*                    Properties of the three locks                        *)
(***************************************************************************)

\* The positions at which a thread reads or writes DNS_CACHE (224, 225, 253),
\* THREAD_POOL (320-323, 491-494, 505-508), the session table (295-303).
CachePositions == {"dl_read", "dl_hit", "dw_write"}

PoolPositions == {"gp_body", "gp_release", "check_body", "fin_body"}

SessionPositions == {"gs_body", "gs_release"}

\* The lock a thread at position p is about to wait for, if any.
WaitsFor(t) ==
    CASE th[t] = "start" /\ t \in Fetchers -> {"_lock"}
      [] th[t] = "start" /\ t \in BatchHandlers -> {"POOL_LOCK"}
      [] th[t] \in {"dl_acquire", "dw_acquire"} -> {"DNS_LOCK"}
      [] th[t] \in {"check_acquire", "fin_acquire"} -> {"POOL_LOCK"}
      [] OTHER -> {}

\* requests.get to a provider (239), session.get to the API (336)
NetworkPositions == {"doh_net", "connect"}

\* The thread taking the step.
Stepping(t) == th'[t] # th[t]

C30_Inv ==
    /\ \A t \in DOMAIN th :
          /\ th[t] \in CachePositions => locks["DNS_LOCK"] = t
          /\ th[t] \in PoolPositions => locks["POOL_LOCK"] = t
          /\ th[t] \in SessionPositions => locks["_lock"] = t
          /\ WaitsFor(t) # {} => Held(t) = {}
          /\ th[t] \in NetworkPositions => Held(t) = {}
    /\ (\E t \in DOMAIN th : th[t] # "done") => ENABLED LockNext

C30_Step ==
    /\ DNS_CACHE' # DNS_CACHE => \E t \in DOMAIN th : Stepping(t) /\ locks["DNS_LOCK"] = t
    /\ <<THREAD_POOL, LAST_POOL_USE>>' # <<THREAD_POOL, LAST_POOL_USE>>
          => \E t \in DOMAIN th : Stepping(t) /\ locks["POOL_LOCK"] = t
    /\ sessions' # sessions => \E t \in DOMAIN th : Stepping(t) /\ locks["_lock"] = t

\* C30: DNS_CACHE is read and written only by the holder of DNS_LOCK,
\* THREAD_POOL only by the holder of POOL_LOCK, the session table only by
\* the holder of the session lock; a thread about to wait for a lock holds
\* none, a thread in a network request holds none, and as long as a thread
\* has not finished some thread can take a step.
C30_LocksGuardAndNeverDeadlock == []C30_Inv /\ [][C30_Step]_vars

\* Both locks contended at once: one thread writes the cache while another
\* waits to read it, and the server waits for the pool lock a handler holds.
C30_Witness ==
    /\ DOMAIN th = LockThreads
    /\ th["w1"] = "dw_write" /\ th["w2"] = "dl_acquire"
    /\ th["h1"] = "gp_body" /\ th[ServerThread] = "check_acquire"
    /\ LockHost \in DOMAIN sessions

(***************************************************************************)
(*                 Properties of the dns_settings update                   *)
(***************************************************************************)

\* The override of key x in map m ("" when it has none).
OverrideOf(m, x) == IF x \in DOMAIN m THEN m[x] ELSE ""

\* Every key a map of overrides may hold.
AllOverrideKeys == OverrideKeys \cup DOMAIN LoadedOverrides

\* The member <<k, v>> belongs to the dns_settings of payload p.
Names(p, k, v) == \E i \in 1..Len(p.dns_settings) : p.dns_settings[i] = <<k, v>>

C31_Step ==
    /\ UNCHANGED <<HOSTS_MAP, TARGET_DOMAINS, DNS_CACHE>>
    /\ CUSTOM_IP_MAP' # CUSTOM_IP_MAP =>
          \E c \in Conns :
             /\ conn[c].pc \in {"dns", "dns_del"} /\ conn'[c] # conn[c]
             /\ Protocol(conn[c].payload) = "V2"
             /\ LET k == Head(conn[c].dns_settings)[1]
                    v == Head(conn[c].dns_settings)[2]
                IN  /\ Names(conn[c].payload, k, v)
                    /\ OverrideOf(CUSTOM_IP_MAP', k) = v
                    /\ (v = "") = (k \notin DOMAIN CUSTOM_IP_MAP')
                    /\ \A x \in AllOverrideKeys \ {k} :
                          /\ (x \in DOMAIN CUSTOM_IP_MAP') = (x \in DOMAIN CUSTOM_IP_MAP)
                          /\ OverrideOf(CUSTOM_IP_MAP', x) = OverrideOf(CUSTOM_IP_MAP, x)

Phase(h) ==
    CASE h.pc = "closed" -> 0                                                    \* not accepted yet
      [] h.pc = "recv" -> 1                                                      \* READING
      [] h.pc \in {"classify", "dns", "dns_del"} -> 2                            \* DISPATCHING
      [] h.pc \in {"single", "single_get", "get_pool", "submit", "collect"} -> 3 \* EXECUTING
      [] h.pc = "respond" -> 4                                                   \* RESPONDING
      [] h.pc = "done" -> 5                                                      \* CLOSED
      [] OTHER -> 6

\* Every fetch of the request of h has produced its result.
AllFetched(h) ==
    /\ Len(h.results) = Len(h.requests_list)
    /\ \A i \in 1..Len(h.futs) : h.futs[i].st = "done"
    /\ \A i \in 1..Len(h.requests_list) : IsOutcomeOf(h.results[i], h.requests_list[i])

C32_Inv ==
    \A c \in Conns :
        /\ Phase(conn[c]) \in 0..5
        /\ (Sent(conn[c]) /\ ~IsPinyinQuery(conn[c])) => AllFetched(conn[c])
        /\ Sent(conn[c]) => conn[c].pc = "done"

C32_Step ==
    \A c \in Conns :
        /\ Phase(conn'[c]) >= Phase(conn[c])
        /\ (Phase(conn[c]) < 4 /\ Phase(conn'[c]) = 4) => Phase(conn[c]) = 3
        /\ (Phase(conn[c]) < 3 /\ Phase(conn'[c]) = 3) => Phase(conn[c]) = 2
        /\ (Phase(conn[c]) < 2 /\ Phase(conn'[c]) = 2) => Phase(conn[c]) = 1

\* C32: when every peer completes its document or closes and every fetch
\* returns, a handler that started reading reaches CLOSED; a handler never
\* goes back to an earlier state and enters DISPATCHING only from READING,
\* EXECUTING only from DISPATCHING and RESPONDING only from EXECUTING; the
\* response of a fetch request is written only when every fetch of the
\* request has its result, and every path, an exception included, ends in
\* CLOSED.
C32_HandlerReachesClosed ==
    /\ []C32_Inv
    /\ [][C32_Step]_vars
    /\ \A c \in Conns : (conn[c].pc = "recv") ~> (conn[c].pc = "done")

\* One handler was closed by the KeyError of the dns_settings loop, the
\* other answered its batch of two with a failed fetch in it.
C32_Witness ==
    /\ conn["c1"].pc = "done" /\ "KeyError" \in conn["c1"].ev /\ ~Sent(conn["c1"])
    /\ conn["c2"].pc = "done" /\ Sent(conn["c2"])
    /\ Len(conn["c2"].results) = 2
    /\ \E i \in 1..2 : DOMAIN conn["c2"].results[i] = {"error"}

(***************************************************************************)
(*                       Properties of the clients                         *)
(***************************************************************************)

\* The call of client k has returned (or none was made yet).
CallOver(k) == cl[k].pc \in {"idle", "done", "failed"}

C33_Inv ==
    \A k \in Clients :
        /\ cl[k].polls <= POLL_ATTEMPTS
        /\ cl[k].ret = "True" => cl[k].seen # ""
        /\ cl[k].launches <= 2 /\ cl[k].connects <= 2
        /\ cl[k].launches = 2 => cl[k].retry
        /\ cl[k].connects = 2 => cl[k].retry
        /\ cl[k].retry => cl[k].connects >= 1
        /\ cl[k].out = "connected" => (cl[k].ret = "True" /\ cl[k].port # "")

C33_Step ==
    \A k \in {x \in Clients : ~CallOver(x)} :
        /\ cl'[k].launches # cl[k].launches =>
              /\ cl'[k].launches = cl[k].launches + 1
              /\ cl[k].seen = ""
              /\ cl'[k].polls = 0
        /\ (cl[k].ret # "False" /\ cl'[k].ret = "False") => cl[k].polls = POLL_ATTEMPTS
        /\ (~cl[k].retry /\ cl'[k].retry) => (cl[k].connects = 1 /\ cl[k].out = "none")

\* C33: ensure_daemon_started runs the script only after it found no port
\* published, then reads the property at most 50 times; it returns True only
\* after reading a published port and False only after the 50th reading;
\* one call of load_info_from_service launches at most twice and connects
\* at most twice, the second time only in its refused-connection branch;
\* and every call that was made returns.
C33_ClientTerminates ==
    /\ []C33_Inv
    /\ [][C33_Step]_vars
    /\ \A k \in Clients : (~CallOver(k)) ~> CallOver(k)

\* The call gave up: refused once, it launched a second script and read the
\* property 50 times in vain.
C33_Witness ==
    /\ cl["k1"].pc = "failed" /\ cl["k1"].retry
    /\ cl["k1"].launches = 2 /\ cl["k1"].polls = POLL_ATTEMPTS
    /\ cl["k1"].ret = "False"

(***************************************************************************)
(*                 Properties of the pool reference                        *)
(***************************************************************************)

\* The handlers that hold a pool returned by get_thread_pool.
PoolHolders == {c \in Conns : conn[c].executor # NoPool}

C34_Inv ==
    /\ poolCount <= 1
    /\ THREAD_POOL \in {NoPool} \cup 1..poolCount
    /\ \A c \in PoolHolders : conn[c].executor = THREAD_POOL
    /\ \A c, d \in PoolHolders : conn[c].executor = conn[d].executor

C34_Step ==
    /\ poolCount' # poolCount =>
          /\ THREAD_POOL = NoPool
          /\ poolCount' = poolCount + 1
          /\ THREAD_POOL' = poolCount'
    /\ \A c \in Conns :
          (conn[c].pc = "get_pool" /\ conn'[c].pc = "submit") =>
              /\ conn'[c].executor = THREAD_POOL' /\ THREAD_POOL' # NoPool
              /\ THREAD_POOL # NoPool => (THREAD_POOL' = THREAD_POOL /\ poolCount' = poolCount)

\* C34: with the pool absent and handlers calling get_thread_pool at the
\* same time, one executor is created and every caller gets that executor;
\* THREAD_POOL is None or the one live executor, and an executor is created
\* only by a call that finds THREAD_POOL None.
C34_OnePoolForAll == []C34_Inv /\ [][C34_Step]_vars

\* Both handlers were at get_thread_pool together and now hold the one pool.
C34_Witness ==
    /\ PoolHolders = Conns
    /\ poolCount = 1 /\ THREAD_POOL = 1
    /\ \A c \in Conns : conn[c].pc = "submit" /\ conn[c].futs = <<>>

(***************************************************************************)
(*               Properties of pools in use at a shutdown                  *)
(***************************************************************************)

\* C35: a handler that got its pool from get_thread_pool and has not yet
\* submitted its whole batch holds a pool that was not shut down, and no
\* handler ends by the RuntimeError of a rejected submission.
C35_NoSubmissionToShutDownPool ==
    \A c \in DOMAIN conn :
        /\ conn[c].pc = "submit" => conn[c].executor \notin poolShutdown
        /\ "RuntimeError" \notin conn[c].ev

(***************************************************************************)
(*        Properties of a batch whose pool the idle check shuts down       *)
(***************************************************************************)

\* The batch of h is submitted whole and the pool it was submitted to has
\* been shut down.
SubmittedToShutDown(h) ==
    /\ IsBatch(h) /\ h.pc = "collect"
    /\ Len(h.futs) = Len(h.requests_list)
    /\ h.executor \in poolShutdown

C36_Inv ==
    \A c \in BusyConns :
        (conn[c].pc \in {"respond", "done"} /\ IsBatch(conn[c])
            /\ "RuntimeError" \notin conn[c].ev) =>
                /\ AllFetched(conn[c])
                /\ conn[c].pc = "done" =>
                      /\ Sent(conn[c])
                      /\ conn[c].response.array = conn[c].results

\* The idle check of the loop touches neither the handlers nor the queued
\* work items.
C36_Step ==
    (spc = "pool_check" /\ spc' = "select") =>
        /\ conn' = conn /\ work_queue' = work_queue
        /\ PoolExpired => (THREAD_POOL \in poolShutdown' /\ THREAD_POOL' = NoPool)

\* C36: when the idle check of the loop shuts the pool down while a batch
\* submitted to it is still running, no fetch of the batch is dropped: its
\* handler gets all N results and sends its response.
C36_RunningBatchSurvivesIdleCheck ==
    /\ []C36_Inv
    /\ [][C36_Step]_vars
    /\ SubmittedToShutDown(conn["c1"]) ~> Completed(conn["c1"])

\* The loop is still accepting, the pool of the batch of c1 was shut down by
\* the idle check, one result is collected and the other fetch still runs.
C36_Witness ==
    /\ Listening /\ THREAD_POOL = NoPool
    /\ SubmittedToShutDown(conn["c1"])
    /\ Len(conn["c1"].results) = 1
    /\ \E i \in 1..2 : conn["c1"].futs[i].st = "running"

(***************************************************************************)
(*            Properties of the idle break and the running handlers        *)
(***************************************************************************)

\* The handler of h is between its accept and the close of its connection.
Handling(h) == h.pc \notin {"closed", "done"}

\* The loop leaves for idleness (start_server 485-487).
LeavesForIdleness == spc = "select" /\ ~abort /\ spc' = "finally"

C37_Step == LeavesForIdleness => \A c \in DaemonConns : ~Handling(conn[c])

\* C37: the daemon does not leave its accept loop for idleness while a
\* connection handler is still reading or executing a request, also when
\* the fetches of the request run longer than the idle threshold counted
\* from the last accept.
C37_NoIdleDrainWhileHandling == [][C37_Step]_vars

(***************************************************************************)
(*             Properties of the published port among daemons              *)
(***************************************************************************)

\* The daemon script d is in its accept loop.
InAcceptLoop(d) == dm[d].st = "listening"

\* C38: whenever some daemon is in its accept loop the published port is
\* non-empty and names a daemon that is in its accept loop (a daemon that
\* leaves clears the published port only when the value is its own port).
C38_PublishedPortNamesListener ==
    (\E d \in Daemons : InAcceptLoop(d)) =>
        /\ portProperty # ""
        /\ \E d \in Daemons : InAcceptLoop(d) /\ dm[d].port = portProperty

(***************************************************************************)
(*              Properties of the entries of the resolution cache          *)
(***************************************************************************)

C39_Step ==
    \A h \in DOMAIN DNS_CACHE :
        /\ h \in DOMAIN DNS_CACHE'
        /\ DNS_CACHE'[h] = DNS_CACHE[h]

\* C39: once the resolution cache holds an address for a hostname, the entry
\* is never removed and never changes, also when several lookups for the
\* same uncached hostname run concurrently and receive different answers.
C39_CacheEntriesAreFinal == [][C39_Step]_vars

====
